---- MODULE Spec2Model ----
(***************************************************************************)
(* RIPS audit dashboard (evaluacion-rips-2026): ingestion of RIPS text     *)
(* files against a CUPS catalog, roster merge, duplicate remediation and   *)
(* the aggregation pass.  Strings are TLA+ strings; a character is a       *)
(* string of length 1.                                                     *)
(***************************************************************************)
EXTENDS Integers, Sequences, FiniteSets, TLC

(***************************************************************************)
(* Bounds of the model                                                     *)
(***************************************************************************)
MaxBatches == 2

MaxPendingClears == 1

(***************************************************************************)
(* JavaScript string primitives                                            *)
(***************************************************************************)
Ch(s, i) == IF i >= 1 /\ i <= Len(s) THEN SubSeq(s, i, i) ELSE ""

DigitChars == {"0", "1", "2", "3", "4", "5", "6", "7", "8", "9"}

LowerAlphabet == "abcdefghijklmnopqrstuvwxyzáéíóúñ"

UpperAlphabet == "ABCDEFGHIJKLMNOPQRSTUVWXYZÁÉÍÓÚÑ"

AsciiLetters == {Ch(LowerAlphabet, i) : i \in 1..26} \cup {Ch(UpperAlphabet, i) : i \in 1..26}

SpaceChars == {" ", "\t", "\n", "\r", "\f"}

IsDigit(c) == c \in DigitChars

\* \w of a JavaScript regular expression: [A-Za-z0-9_]
IsWordChar(c) == c \in AsciiLetters \/ c \in DigitChars \/ c = "_"

IsAlnum(c) == c \in AsciiLetters \/ c \in DigitChars

toUpperChar(c) ==
  IF \E i \in 1..Len(LowerAlphabet) : Ch(LowerAlphabet, i) = c
  THEN Ch(UpperAlphabet, CHOOSE i \in 1..Len(LowerAlphabet) : Ch(LowerAlphabet, i) = c)
  ELSE c

\* toUpperCase of the characters lo..hi of s
RECURSIVE UpperRange(_, _, _)
UpperRange(s, lo, hi) ==
  IF lo > hi THEN ""
  ELSE IF lo = hi THEN toUpperChar(Ch(s, lo))
  ELSE LET mid == (lo + hi) \div 2
       IN  UpperRange(s, lo, mid) \o UpperRange(s, mid + 1, hi)

toUpperCase(s) == UpperRange(s, 1, Len(s))

RECURSIVE trimStart(_)
trimStart(s) ==
  IF s # "" /\ Head(s) \in SpaceChars THEN trimStart(Tail(s)) ELSE s

RECURSIVE trimEnd(_)
trimEnd(s) ==
  IF s # "" /\ Ch(s, Len(s)) \in SpaceChars THEN trimEnd(SubSeq(s, 1, Len(s) - 1)) ELSE s

trim(s) == trimEnd(trimStart(s))

includes(s, sub) ==
  \E i \in 1..(Len(s) - Len(sub) + 1) : SubSeq(s, i, i + Len(sub) - 1) = sub

startsWith(s, pre) == Len(s) >= Len(pre) /\ SubSeq(s, 1, Len(pre)) = pre

CountChar(s, c) == Cardinality({i \in 1..Len(s) : Ch(s, i) = c})

\* String.prototype.split with a one-character separator
split(s, sep) ==
  LET P == {i \in 1..Len(s) : Ch(s, i) = sep}
      pos(k) == IF k = 0 THEN 0
                ELSE IF k > Cardinality(P) THEN Len(s) + 1
                ELSE CHOOSE p \in P : Cardinality({q \in P : q < p}) = k - 1
  IN  [k \in 1..(Cardinality(P) + 1) |-> SubSeq(s, pos(k - 1) + 1, pos(k) - 1)]

\* txt.split(/\r?\n/): a \r directly before the \n belongs to the separator
SplitLines(txt) ==
  LET segs == split(txt, "\n")
      strip(x) == IF x # "" /\ Ch(x, Len(x)) = "\r" THEN SubSeq(x, 1, Len(x) - 1) ELSE x
  IN  [i \in 1..Len(segs) |-> IF i < Len(segs) THEN strip(segs[i]) ELSE segs[i]]

\* /^\d+$/
AllDigits(s) == s # "" /\ \A i \in 1..Len(s) : IsDigit(Ch(s, i))

\* length of the run of digits that starts at position i
RECURSIVE DigitRun(_, _)
DigitRun(s, i) == IF IsDigit(Ch(s, i)) THEN 1 + DigitRun(s, i + 1) ELSE 0

\* \b between positions i-1 and i (positions outside the string are non-word)
WordBoundary(s, i) == IsWordChar(Ch(s, i - 1)) # IsWordChar(Ch(s, i))

FirstIndex(S) == IF S = {} THEN 0 ELSE CHOOSE i \in S : \A j \in S : i <= j

(***************************************************************************)
(* utils/logic.ts                                                          *)
(***************************************************************************)
DocPrefixes == {"CC", "TI", "RC", "CE", "PA", "PE", "CN", "MS"}

RECURSIVE StripSepRun(_)
StripSepRun(s) ==
  IF s # "" /\ (Head(s) = "-" \/ Head(s) \in SpaceChars) THEN StripSepRun(Tail(s)) ELSE s

\* the characters lo..hi of s without those that are not [0-9A-Za-z]
RECURSIVE AlnumRange(_, _, _)
AlnumRange(s, lo, hi) ==
  IF lo > hi THEN ""
  ELSE IF lo = hi THEN (IF IsAlnum(Ch(s, lo)) THEN Ch(s, lo) ELSE "")
  ELSE LET mid == (lo + hi) \div 2
       IN  AlnumRange(s, lo, mid) \o AlnumRange(s, mid + 1, hi)

\* x.replace(/[^0-9A-Za-z]/g, "")
KeepAlnum(s) == AlnumRange(s, 1, Len(s))

\* x.replace(/^(CC|TI|RC|CE|PA|PE|CN|MS)[-\s]*/i, "")
StripDocPrefix(x) ==
  IF Len(x) >= 2 /\ toUpperCase(SubSeq(x, 1, 2)) \in DocPrefixes
  THEN StripSepRun(SubSeq(x, 3, Len(x)))
  ELSE x

normalizeId(v) == toUpperCase(KeepAlnum(StripDocPrefix(trim(v))))

\* \d{4}-\d{2}-\d{2} at position i
IsoDateAt(s, i) ==
  /\ \A k \in {0, 1, 2, 3, 5, 6, 8, 9} : IsDigit(Ch(s, i + k))
  /\ Ch(s, i + 4) = "-" /\ Ch(s, i + 7) = "-"

\* \d{2}\/\d{2}\/\d{4} at position i
DmyDateAt(s, i) ==
  /\ \A k \in {0, 1, 3, 4, 6, 7, 8, 9} : IsDigit(Ch(s, i + k))
  /\ Ch(s, i + 2) = "/" /\ Ch(s, i + 5) = "/"

\* either date alternative enclosed in \b ... \b at position i
BoundedDateAt(s, i) ==
  /\ IsoDateAt(s, i) \/ DmyDateAt(s, i)
  /\ WordBoundary(s, i) /\ WordBoundary(s, i + 10)

parseDateFromLine(l) ==
  LET i == FirstIndex({k \in 1..Len(l) : BoundedDateAt(l, k)})
  IN  IF i = 0 THEN "" ELSE SubSeq(l, i, i + 9)

(***************************************************************************)
(* Regular expressions of processFiles                                     *)
(***************************************************************************)
\* /\d{4}-\d{2}-\d{2}|\d{2}\/\d{2}\/\d{4}/.test(l)
hasDate(l) == \E i \in 1..Len(l) : IsoDateAt(l, i) \/ DmyDateAt(l, i)

\* /\b(M|F)\b/i.test(l)
hasSex(l) ==
  \E i \in 1..Len(l) :
    /\ Ch(l, i) \in {"M", "F", "m", "f"}
    /\ WordBoundary(l, i) /\ WordBoundary(l, i + 1)

\* /^(M|F)$/i
IsSexToken(p) == p \in {"M", "F", "m", "f"}

\* /^\d{4}-\d{2}-\d{2}$/.test(p) || /^\d{2}\/\d{2}\/\d{4}$/.test(p)
IsDateToken(p) == Len(p) = 10 /\ (IsoDateAt(p, 1) \/ DmyDateAt(p, 1))

\* /^(?:CC|TI|RC|CE|PA|PE|CN|MS)?-?\d{3,20}$/i
IsIdToken(p) ==
  LET r1 == IF Len(p) >= 2 /\ toUpperCase(SubSeq(p, 1, 2)) \in DocPrefixes
            THEN SubSeq(p, 3, Len(p)) ELSE p
      r2 == IF r1 # "" /\ Head(r1) = "-" THEN Tail(r1) ELSE r1
  IN  AllDigits(r2) /\ Len(r2) >= 3 /\ Len(r2) <= 20

\* /[A-Za-zÁÉÍÓÚÑ]/
HasLetter(p) ==
  \E i \in 1..Len(p) : Ch(p, i) \in AsciiLetters \cup {"Á", "É", "Í", "Ó", "Ú", "Ñ"}

IsNameToken(p) == HasLetter(p) /\ ~IsSexToken(p) /\ ~AllDigits(p) /\ Len(p) > 2

\* l.match(/\b\d{6}\b/): the matched text, "" when there is no match
MatchCups(l) ==
  LET ok(i) == WordBoundary(l, i) /\ DigitRun(l, i) >= 6 /\ WordBoundary(l, i + 6)
      i == FirstIndex({k \in 1..Len(l) : ok(k)})
  IN  IF i = 0 THEN "" ELSE SubSeq(l, i, i + 5)

\* length matched at i by \b(?:CC|..|MS)-?\d{4,15}\b (case-sensitive), 0 if none
PrefixedIdLenAt(l, i) ==
  LET d == IF Ch(l, i + 2) = "-" THEN i + 3 ELSE i + 2
      n == DigitRun(l, d)
  IN  IF /\ WordBoundary(l, i)
         /\ (Ch(l, i) \o Ch(l, i + 1)) \in DocPrefixes
         /\ n >= 4 /\ n <= 15
         /\ WordBoundary(l, d + n)
      THEN (d - i) + n ELSE 0

\* length matched at i by \b\d{6,15}\b, 0 if none
BareIdLenAt(l, i) ==
  LET n == DigitRun(l, i)
  IN  IF WordBoundary(l, i) /\ n >= 6 /\ n <= 15 /\ WordBoundary(l, i + n)
      THEN n ELSE 0

\* l.match(/\b(?:CC|..|MS)-?\d{4,15}\b|\b\d{6,15}\b/): matched text or ""
MatchPaciente(l) ==
  LET len(i) == IF PrefixedIdLenAt(l, i) > 0 THEN PrefixedIdLenAt(l, i) ELSE BareIdLenAt(l, i)
      i == FirstIndex({k \in 1..Len(l) : len(k) > 0})
  IN  IF i = 0 THEN "" ELSE SubSeq(l, i, i + len(i) - 1)

(***************************************************************************)
(* JavaScript Map (insertion-ordered) as a sequence of key/value entries   *)
(***************************************************************************)
MapHas(m, k) == \E i \in 1..Len(m) : m[i].key = k

MapIndex(m, k) == CHOOSE i \in 1..Len(m) : m[i].key = k

MapGet(m, k) == m[MapIndex(m, k)].val

MapSet(m, k, v) ==
  IF MapHas(m, k)
  THEN [m EXCEPT ![MapIndex(m, k)] = [key |-> k, val |-> v]]
  ELSE Append(m, [key |-> k, val |-> v])

MapKeys(m) == {m[i].key : i \in 1..Len(m)}

\* Array.prototype.find(...) || "": the element at the least index of
\* matches, the set of the indices that pass the test
FindFirst(parts, matches) ==
  LET i == FirstIndex(matches)
  IN  IF i = 0 THEN "" ELSE parts[i]

RECURSIVE join(_, _)
join(parts, sep) ==
  IF parts = <<>> THEN ""
  ELSE IF Len(parts) = 1 THEN parts[1]
  ELSE parts[1] \o sep \o join(Tail(parts), sep)

(***************************************************************************)
(* processFiles: catalog loader                                            *)
(***************************************************************************)
\* BuildCupsMap that keeps the first row of a code
RECURSIVE BuildCupsMapKeepFirst(_, _)
BuildCupsMapKeepFirst(rows, cupsMap) ==
  IF rows = <<>> THEN cupsMap
  ELSE LET x == Head(rows)
           c == trim(x.cupsVigente)
       IN  BuildCupsMapKeepFirst(Tail(rows),
             IF c # "" /\ ~MapHas(cupsMap, c)
             THEN MapSet(cupsMap, c, [cups |-> c, tipo |-> trim(x.tipoSer), nombre |-> trim(x.nombreCups)])
             ELSE cupsMap)

\* rows.forEach(x => { const c = String(x["CUPS VIGENTE"] || "").trim(); ... })
RECURSIVE BuildCupsMap(_, _)
BuildCupsMap(rows, cupsMap) ==
  IF rows = <<>> THEN cupsMap
  ELSE LET x == Head(rows)
           c == trim(x.cupsVigente)
       IN  BuildCupsMap(Tail(rows),
             IF c # ""
             THEN MapSet(cupsMap, c, [cups |-> c, tipo |-> trim(x.tipoSer), nombre |-> trim(x.nombreCups)])
             ELSE cupsMap)

(***************************************************************************)
(* processFiles: per-line classification and extraction                    *)
(***************************************************************************)
getSectionFromFilename(name) ==
  LET n == toUpperCase(name)
  IN  IF startsWith(n, "US") THEN "USUARIOS"
      ELSE IF startsWith(n, "AC") \/ startsWith(n, "AP") \/ startsWith(n, "AM") \/ startsWith(n, "AT")
           THEN "SERVICIOS"
      ELSE ""

IsUsuariosHeader(upperLine) ==
  /\ includes(upperLine, "USUARIOS")
  /\ includes(upperLine, "*") \/ includes(upperLine, "°") \/ includes(upperLine, "-")

IsServiciosHeader(upperLine) ==
  \/ includes(upperLine, "CONSULTAS")
  \/ includes(upperLine, "PROCEDIMIENTOS")
  \/ includes(upperLine, "MEDICAMENTOS")
  \/ includes(upperLine, "OTROS SERVICIOS")

StripTrailingPipe(x) ==
  IF x # "" /\ Ch(x, Len(x)) = "|" THEN SubSeq(x, 1, Len(x) - 1) ELSE x

\* separator detection; <<>> stands for "no usable separator"
SplitParts(l) ==
  IF includes(l, ",") /\ CountChar(l, ",") >= 3
  THEN LET ps == split(l, ",") IN [i \in 1..Len(ps) |-> StripTrailingPipe(trim(ps[i]))]
  ELSE IF includes(l, "|")
  THEN LET ps == split(l, "|") IN [i \in 1..Len(ps) |-> trim(ps[i])]
  ELSE <<>>

\* section detection, separator detection and content heuristic for one raw
\* line: the section in effect after the line and the branch that handles it
Classify(section, raw) ==
  LET l == trim(raw)
      upperLine == toUpperCase(l)
      parts == SplitParts(l)
      heur == IF section # "USUARIOS" /\ hasDate(l) /\ hasSex(l) THEN "USUARIOS" ELSE section
      res(sec, kind) == [section |-> sec, kind |-> kind, l |-> l, parts |-> parts]
  IN  IF l = "" THEN res(section, "skip")
      ELSE IF IsUsuariosHeader(upperLine) THEN res("USUARIOS", "header")
      ELSE IF IsServiciosHeader(upperLine) THEN res("SERVICIOS", "header")
      ELSE IF Len(parts) < 2 THEN res(section, "skip")
      ELSE IF includes(heur, "USUARIOS") THEN res(heur, "usuario")
      ELSE res(heur, "servicio")

NoUsuario == [id |-> "", sexo |-> "", fnac |-> "", nombre |-> ""]

\* ExtractUsuario with the identifier stored as written
ExtractUsuarioRawId(parts) ==
  LET p1 == IF Len(parts) >= 2 THEN parts[2] ELSE ""
      idCand == IF p1 = "" \/ ~AllDigits(p1) THEN FindFirst(parts, {k \in 1..Len(parts) : IsIdToken(parts[k])}) ELSE p1
      posiblesNombre == SelectSeq(parts, IsNameToken)
  IN  [id |-> idCand,
       sexo |-> toUpperCase(FindFirst(parts, {k \in 1..Len(parts) : IsSexToken(parts[k])})),
       fnac |-> FindFirst(parts, {k \in 1..Len(parts) : IsDateToken(parts[k])}),
       nombre |-> join(SubSeq(posiblesNombre, 1,
                              IF Len(posiblesNombre) < 4 THEN Len(posiblesNombre) ELSE 4), " ")]

\* roster branch, lines 275-287: the fields the line supplies
ExtractUsuario(parts) ==
  LET p1 == IF Len(parts) >= 2 THEN parts[2] ELSE ""
      idCand == IF p1 = "" \/ ~AllDigits(p1) THEN FindFirst(parts, {k \in 1..Len(parts) : IsIdToken(parts[k])}) ELSE p1
      posiblesNombre == SelectSeq(parts, IsNameToken)
  IN  [id |-> normalizeId(idCand),
       sexo |-> toUpperCase(FindFirst(parts, {k \in 1..Len(parts) : IsSexToken(parts[k])})),
       fnac |-> FindFirst(parts, {k \in 1..Len(parts) : IsDateToken(parts[k])}),
       nombre |-> join(SubSeq(posiblesNombre, 1,
                              IF Len(posiblesNombre) < 4 THEN Len(posiblesNombre) ELSE 4), " ")]

NoServicio == [cups |-> "", paciente |-> "", fecha |-> ""]

\* service branch, lines 300-317: the code, patient and date read from the line
ExtractServicio(l) ==
  LET mP == MatchPaciente(l)
      pacienteRaw == IF mP # "" THEN mP ELSE "SIN_ID"
  IN  [cups |-> MatchCups(l),
       paciente |-> IF normalizeId(pacienteRaw) # "" THEN normalizeId(pacienteRaw) ELSE "SIN_ID",
       fecha |-> parseDateFromLine(l)]

\* what one raw line is, given the section in effect before it
ParseLine(section, raw) ==
  LET c == Classify(section, raw)
  IN  [section |-> c.section, kind |-> c.kind,
       usuario |-> IF c.kind = "usuario" THEN ExtractUsuario(c.parts) ELSE NoUsuario,
       servicio |-> IF c.kind = "servicio" THEN ExtractServicio(c.l) ELSE NoServicio]

RECURSIVE ParseLines(_, _)
ParseLines(section, lines) ==
  IF lines = <<>> THEN <<>>
  ELSE LET e == ParseLine(section, Head(lines))
       IN  <<e>> \o ParseLines(e.section, Tail(lines))

\* the lines of one file: section from the file name, then line by line
ParseFile(file) == ParseLines(getSectionFromFilename(file.name), SplitLines(file.text))

\* MergeUsuario with every field taken from the new line
MergeUsuarioOverwrite(users, u) ==
  IF u.id = "" \/ Len(u.id) < 3 THEN users
  ELSE MapSet(users, u.id, [id |-> u.id, sexo |-> u.sexo, fnac |-> u.fnac, nombre |-> u.nombre])

\* roster branch, lines 281 and 289-295: merge into newUsuariosMap
MergeUsuario(users, u) ==
  LET prev == IF MapHas(users, u.id) THEN MapGet(users, u.id)
              ELSE [id |-> u.id, sexo |-> "", fnac |-> "", nombre |-> ""]
  IN  IF u.id = "" \/ Len(u.id) < 3 THEN users
      ELSE MapSet(users, u.id,
             [id |-> u.id,
              sexo |-> IF u.sexo # "" THEN u.sexo ELSE prev.sexo,
              fnac |-> IF u.fnac # "" THEN u.fnac ELSE prev.fnac,
              nombre |-> IF u.nombre # "" THEN u.nombre ELSE prev.nombre])

\* PushServicio that skips a record equal to one already extracted
PushServicioOnce(regs, sv, cupsMap) ==
  LET info == MapGet(cupsMap, sv.cups)
      r == [cups |-> sv.cups, paciente |-> sv.paciente, tipo |-> info.tipo,
            nombre |-> info.nombre, fecha |-> sv.fecha]
  IN  IF sv.cups = "" THEN regs
      ELSE IF ~MapHas(cupsMap, sv.cups) THEN regs
      ELSE IF \E i \in 1..Len(regs) : regs[i] = r THEN regs
      ELSE Append(regs, r)

\* service branch, lines 303-318: newRegistros after the line
PushServicio(regs, sv, cupsMap) ==
  LET info == MapGet(cupsMap, sv.cups)
  IN  IF sv.cups = "" THEN regs
      ELSE IF ~MapHas(cupsMap, sv.cups) THEN regs
      ELSE Append(regs, [cups |-> sv.cups, paciente |-> sv.paciente, tipo |-> info.tipo,
                         nombre |-> info.nombre, fecha |-> sv.fecha])

\* one iteration of "for (const raw of lines)" on the parsed line e;
\* st = [regs, users]
ProcessLine(st, e, cupsMap) ==
  [users |-> IF e.kind = "usuario" THEN MergeUsuario(st.users, e.usuario) ELSE st.users,
   regs |-> IF e.kind = "servicio" THEN PushServicio(st.regs, e.servicio, cupsMap) ELSE st.regs]

RECURSIVE ProcessLines(_, _, _)
ProcessLines(st, events, cupsMap) ==
  IF events = <<>> THEN st
  ELSE ProcessLines(ProcessLine(st, Head(events), cupsMap), Tail(events), cupsMap)

(***************************************************************************)
(* Inputs: the catalog workbooks and RIPS file lists a user can submit     *)
(***************************************************************************)
TIPOS_SERVICIOS_DEFAULT ==
  << "CONSULTA EXTERNA Y/O SERVICIO DE MEDICINA GENERAL",
     "ODONTOLOGIA GENERAL",
     "LABORATORIO CLINICO, BAJA COMPLEJIDAD",
     "IMAGENES DIAGNOSTICAS BAJA COMPLEJIDAD",
     "TRANSPORTE ASISTENCIAL",
     "URGENCIAS BC",
     "HOSPITALIZACIÓN BAJA COMPLEJIDAD; GENERAL ADULTOS; PEDIATRICA Y OBSTETRICA",
     "PEDIATRIA",
     "GINECOLOGIA",
     "MEDICINA INTERNA",
     "PSICOLOGIA",
     "NUTRICION" >>

\* rows of the first sheet, as sheet_to_json(ws, {defval: ""}) returns them
CatalogA ==
  << [cupsVigente |-> " 890301 ", tipoSer |-> "PEDIATRIA", nombreCups |-> "CONSULTA PEDIATRIA"],
     [cupsVigente |-> "890201", tipoSer |-> "ODONTOLOGIA GENERAL", nombreCups |-> "ODONTO"],
     [cupsVigente |-> "", tipoSer |-> "PSICOLOGIA", nombreCups |-> "SIN CODIGO"],
     [cupsVigente |-> "890201", tipoSer |-> " ODONTOLOGIA GENERAL", nombreCups |-> "CONSULTA ODONTOLOGIA "],
     [cupsVigente |-> "931000", tipoSer |-> "FISIOTERAPIA", nombreCups |-> "TERAPIA FISICA"] >>

CatalogB ==
  << [cupsVigente |-> "890201", tipoSer |-> "PEDIATRIA", nombreCups |-> "VALORACION"] >>

NoFile == "null"

CupsFiles == {NoFile, CatalogA, CatalogB}

FileUS ==
  [name |-> "US000123.txt",
   text |-> "1|CC-1234567|M|1990-01-02|ANA\r\n9|1234567||\n3|cc1234567|F|LUZ MARIA\n"]

FileUS2 ==
  [name |-> "us000124.txt",
   text |-> "TI,7654321,,02/03/2015,\n\nCC|-1234567|RUIZ\n** CONSULTAS **\nF9|TI-7654321|890301|2024-02-01"]

FileAC ==
  [name |-> "AC000123.txt",
   text |-> "F1|CC-1234567|890301|2024-01-05\nF1|CC-1234567|890201|2024-01-05\nF1|CC-1234567|890301|2024-01-05\nF3|CC-1234567|999999|2024-01-05\nsin separador 890201\nF1|CC-1234567|890201|2024-01-05"]

FileAP ==
  [name |-> "ap000777.TXT",
   text |-> "F2|TI-7654321|890201|\r\nF2|TI-7654321|890201|\r\nF4,CC-1234567,931000,2024-01-06,\nF2|TI-7654321|890201|\nF6|CC-1234567|890301|2024-02-01\nF7|890201|2024-02-03\nF8|TI-7654321|890201|2024-03-05\nF8|TI-7654321|890201|2024-01-10"]

\* a service file with a line of roster shape, the two kinds of header and
\* a marker line
FileAT ==
  [name |-> "AT000555.txt",
   text |-> "F5|CC-1234567|F|1990-01-02|890201\nF6|CC-1234567|890301|2024-02-01\n** PROCEDIMIENTOS **\nF7|TI-7654321|890201|2024-02-02\nF5|TI-7654321|M|2015-03-02|890201\nF7|TI-7654321|890201|2024-02-04\n°----ARCHIVO-USUARIOS----°|\nTI|7654321|M|\n°----ARCHIVO-AC----°|\nF8|TI-7654321|890301|2024-02-03"]

\* a file whose name declares no section
FileCT ==
  [name |-> "CT000001.txt",
   text |-> "F9|CC-1234567|890201|2024-01-07"]

RipsFileLists ==
  { <<>>, <<FileUS>>, <<FileAC>>, <<FileUS2, FileAP>>, <<FileAT, FileCT>> }

RipsFiles == {FileUS, FileUS2, FileAC, FileAP, FileAT, FileCT}

\* the parsed lines of every file of the pool
FileLines == [file \in RipsFiles |-> ParseFile(file)]

\* body of "for (let i = 0; i < ripsFiles.length; i++)" for one file
ProcessFile(regs, users, file, cupsMap) ==
  ProcessLines([regs |-> regs, users |-> users], FileLines[file], cupsMap)

\* goals whose checkbox the user toggles
ToggledGoals == {8}

(***************************************************************************)
(* JavaScript plain objects, Sets and Array.prototype.sort                 *)
(***************************************************************************)
DigitVal(c) == CHOOSE d \in 0..9 : Ch("0123456789", d + 1) = c

\* a < b for canonical decimal strings (no leading zeros)
NumLess(a, b) ==
  \/ Len(a) < Len(b)
  \/ /\ Len(a) = Len(b)
     /\ \E i \in 1..Len(a) :
          /\ SubSeq(a, 1, i - 1) = SubSeq(b, 1, i - 1)
          /\ DigitVal(Ch(a, i)) < DigitVal(Ch(b, i))

\* the largest array index, 2^32 - 2
MaxArrayIndex == "4294967294"

\* a property key that is an array index: canonical decimal below 2^32 - 1
IsArrayIndex(k) ==
  /\ AllDigits(k)
  /\ k = "0" \/ Head(k) # "0"
  /\ k = MaxArrayIndex \/ NumLess(k, MaxArrayIndex)

\* stable insertion into a sequence of <<key, item>> pairs sorted by key:
\* x goes after every pair whose key is not greater
RECURSIVE InsertAsc(_, _)
InsertAsc(sorted, x) ==
  IF sorted = <<>> THEN <<x>>
  ELSE IF Head(sorted)[1] <= x[1]
       THEN <<Head(sorted)>> \o InsertAsc(Tail(sorted), x)
       ELSE <<x>> \o sorted

RECURSIVE SortPairs(_)
SortPairs(a) ==
  IF a = <<>> THEN <<>>
  ELSE InsertAsc(SortPairs(SubSeq(a, 1, Len(a) - 1)), a[Len(a)])

\* Array.prototype.sort (stable) with a comparator (a, b) => key(a) - key(b),
\* on <<key, item>> pairs: the items in sorted order
StableSort(pairs) ==
  LET sorted == SortPairs(pairs)
  IN  [i \in 1..Len(pairs) |-> sorted[i][2]]

\* Object.entries(o): array-index keys in ascending numeric order, then the
\* other string keys in the order in which they were created
ObjectEntries(o) ==
  LET idx == SelectSeq(o, LAMBDA e : IsArrayIndex(e.key))
      rank(e) == Cardinality({j \in 1..Len(idx) : NumLess(idx[j].key, e.key)})
  IN  StableSort([i \in 1..Len(idx) |-> <<rank(idx[i]), idx[i]>>])
        \o SelectSeq(o, LAMBDA e : ~IsArrayIndex(e.key))

\* o[k] || dflt
ObjGet(o, k, dflt) == IF MapHas(o, k) THEN MapGet(o, k) ELSE dflt

\* Set.prototype.add on an insertion-ordered Set
SetAdd(set, x) == IF \E i \in 1..Len(set) : set[i] = x THEN set ELSE Append(set, x)

\* the characters of a date string, in ascending order of their code units
DateChars == "-/0123456789"

CodeUnit(c) == CHOOSE k \in 1..Len(DateChars) : Ch(DateChars, k) = c

\* a < b in the order of Array.prototype.sort() without comparator: by code
\* units, a proper prefix first
StrLess(a, b) ==
  \/ Len(a) < Len(b) /\ SubSeq(b, 1, Len(a)) = a
  \/ \E i \in 1..(IF Len(a) < Len(b) THEN Len(a) ELSE Len(b)) :
       /\ SubSeq(a, 1, i - 1) = SubSeq(b, 1, i - 1)
       /\ CodeUnit(Ch(a, i)) < CodeUnit(Ch(b, i))

\* Array.from(set).sort() on distinct strings
SortStrings(set) ==
  LET rank(x) == Cardinality({j \in 1..Len(set) : StrLess(set[j], x)})
  IN  [i \in 1..Len(set) |-> set[CHOOSE j \in 1..Len(set) : rank(set[j]) = i - 1]]

(***************************************************************************)
(* Date and the age functions of logic.ts                                  *)
(***************************************************************************)
IsLeap(y) == (y % 4 = 0 /\ y % 100 # 0) \/ y % 400 = 0

DaysInMonth(y, m) ==
  IF m = 2 THEN (IF IsLeap(y) THEN 29 ELSE 28)
  ELSE IF m \in {4, 6, 9, 11} THEN 30 ELSE 31

\* the number of days from 1970-01-01 to the calendar day t
DayNumber(t) ==
  LET y == IF t.m <= 2 THEN t.y - 1 ELSE t.y
      era == y \div 400
      yoe == y - era * 400
      mp == (t.m + 9) % 12
      doy == (153 * mp + 2) \div 5 + t.d - 1
      doe == yoe * 365 + yoe \div 4 - yoe \div 100 + doy
  IN  era * 146097 + doe - 719468

PrevDay(t) ==
  IF t.d > 1 THEN [t EXCEPT !.d = t.d - 1]
  ELSE IF t.m > 1 THEN [y |-> t.y, m |-> t.m - 1, d |-> DaysInMonth(t.y, t.m - 1)]
  ELSE [y |-> t.y - 1, m |-> 12, d |-> 31]

RECURSIVE ParseDigits(_)
ParseDigits(s) ==
  IF s = "" THEN 0
  ELSE 10 * ParseDigits(SubSeq(s, 1, Len(s) - 1)) + DigitVal(Ch(s, Len(s)))

\* new Date(fn) on a machine whose zone is west of Greenwich or not.
\* "yyyy-mm-dd" is midnight UTC of that day, which is the day before in
\* local time west of Greenwich; "mm/dd/yyyy" is read month first and is
\* local midnight; a month that is not 1..12, a day that the month does not
\* have and every other text give an Invalid Date.  day counts the whole
\* days from the epoch to the instant, in UTC for the first form and in
\* local time for the second; local is what getFullYear, getMonth (1-based
\* here) and getDate return.
NewDate(fn, west) ==
  LET iso == Len(fn) = 10 /\ IsoDateAt(fn, 1)
      mdy == Len(fn) = 10 /\ DmyDateAt(fn, 1)
      t == IF iso
           THEN [y |-> ParseDigits(SubSeq(fn, 1, 4)), m |-> ParseDigits(SubSeq(fn, 6, 7)),
                 d |-> ParseDigits(SubSeq(fn, 9, 10))]
           ELSE IF mdy
           THEN [y |-> ParseDigits(SubSeq(fn, 7, 10)), m |-> ParseDigits(SubSeq(fn, 1, 2)),
                 d |-> ParseDigits(SubSeq(fn, 4, 5))]
           ELSE [y |-> 0, m |-> 0, d |-> 0]
      valid == /\ iso \/ mdy
               /\ t.m \in 1..12
               /\ t.d \in 1..DaysInMonth(t.y, t.m)
  IN  IF ~valid THEN [valid |-> FALSE, utc |-> FALSE, day |-> 0, local |-> t]
      ELSE [valid |-> TRUE, utc |-> iso, day |-> DayNumber(t),
            local |-> IF iso /\ west THEN PrevDay(t) ELSE t]

\* Math.floor((b.getTime() - a.getTime()) / 86400000), b being the clock h
diffDays(a, h) ==
  IF a.utc THEN DayNumber(h.date) + (IF h.utcNextDay THEN 1 ELSE 0) - a.day
  ELSE DayNumber(h.date) - a.day

edadDetallada(fn, h) ==
  IF fn = "" THEN ""
  ELSE LET f == NewDate(fn, h.west)
           days == diffDays(f, h)
           \* Math.floor(days / 30.4375): 30.4375 is 487 / 16
           months == (16 * days) \div 487
           years == months \div 12
           remM == months % 12
       IN  IF ~f.valid THEN ""
           ELSE IF days < 0 THEN ""
           ELSE IF days < 30 THEN ToString(days) \o " días"
           ELSE IF months < 24 THEN ToString(months) \o " meses"
           ELSE ToString(years) \o " años"
                  \o (IF remM # 0 THEN " " \o ToString(remM) \o " meses" ELSE "")

\* the result null of edadMeses and edadAnios
NullAge == [isNull |-> TRUE, n |-> 0]

edadMeses(fn, h) ==
  IF fn = "" THEN NullAge
  ELSE LET f == NewDate(fn, h.west)
       IN  IF ~f.valid THEN NullAge
           ELSE [isNull |-> FALSE,
                 n |-> (h.date.y - f.local.y) * 12 + (h.date.m - f.local.m)]

edadAnios(fn, h) ==
  IF fn = "" THEN NullAge
  ELSE LET f == NewDate(fn, h.west)
           e == h.date.y - f.local.y
       IN  IF ~f.valid THEN NullAge
           ELSE [isNull |-> FALSE,
                 n |-> IF \/ h.date.m < f.local.m
                          \/ h.date.m = f.local.m /\ h.date.d < f.local.d
                       THEN e - 1 ELSE e]

\* grupoEtarioDesdeFN whose first bracket is chosen by the years
grupoEtarioPorAnios(fn, h) ==
  IF fn = "" THEN ""
  ELSE LET m == edadMeses(fn, h)
           a == edadAnios(fn, h)
       IN  IF m.isNull \/ a.isNull THEN ""
           ELSE IF a.n <= 5 THEN "PRIMERA INFANCIA (0m-5a)"
           ELSE IF a.n <= 11 THEN "INFANCIA (6-11)"
           ELSE IF a.n <= 17 THEN "ADOLESCENCIA (12-17)"
           ELSE IF a.n <= 28 THEN "JÓVENES (18-28)"
           ELSE IF a.n <= 59 THEN "ADULTEZ (29-59)"
           ELSE "VEJEZ (60+)"

grupoEtarioDesdeFN(fn, h) ==
  IF fn = "" THEN ""
  ELSE LET m == edadMeses(fn, h)
           a == edadAnios(fn, h)
       IN  IF m.isNull \/ a.isNull THEN ""
           ELSE IF m.n <= 60 THEN "PRIMERA INFANCIA (0m-5a)"
           ELSE IF a.n <= 11 THEN "INFANCIA (6-11)"
           ELSE IF a.n <= 17 THEN "ADOLESCENCIA (12-17)"
           ELSE IF a.n <= 28 THEN "JÓVENES (18-28)"
           ELSE IF a.n <= 59 THEN "ADULTEZ (29-59)"
           ELSE "VEJEZ (60+)"

(***************************************************************************)
(* The aggregation pass: useMemo over [registros, metas, scale,            *)
(* usuariosMap]                                                            *)
(***************************************************************************)
activeTypes(ms) == {ms[i].type : i \in {j \in 1..Len(ms) : ms[j].active}}

\* filteredRegistros that keeps every record
filteredRegistrosAll(regs, ms) == regs

filteredRegistros(regs, ms) == SelectSeq(regs, LAMBDA r : r.tipo \in activeTypes(ms))

dupKey(r) == r.paciente \o "|" \o r.cups \o "|" \o r.fecha

NoCounts ==
  [duplicateMap |-> <<>>, typeCount |-> <<>>, cupsCount |-> <<>>, cupsPacCount |-> <<>>,
   cupsPacDates |-> <<>>, pacCount |-> <<>>, pacMeta |-> <<>>]

\* CountRecord that counts a repeated (paciente, cups, fecha) once per code
CountRecordOncePerKey(c, r) ==
  LET currDup == ObjGet(c.duplicateMap, dupKey(r), [count |-> 0, record |-> r])
      cc == ObjGet(c.cupsCount, r.cups, [count |-> 0, name |-> r.nombre, type |-> r.tipo])
      pacs == ObjGet(c.cupsPacCount, r.cups, <<>>)
      dates == ObjGet(c.cupsPacDates, r.cups, <<>>)
      pm == ObjGet(c.pacMeta, r.paciente, [dates |-> <<>>, cups |-> <<>>])
  IN  [duplicateMap |-> MapSet(c.duplicateMap, dupKey(r), [currDup EXCEPT !.count = @ + 1]),
       typeCount |-> MapSet(c.typeCount, r.tipo, ObjGet(c.typeCount, r.tipo, 0) + 1),
       cupsCount |-> MapSet(c.cupsCount, r.cups,
                            [cc EXCEPT !.count = IF currDup.count = 0 THEN @ + 1 ELSE @]),
       cupsPacCount |-> MapSet(c.cupsPacCount, r.cups,
                               MapSet(pacs, r.paciente, ObjGet(pacs, r.paciente, 0) + 1)),
       cupsPacDates |-> MapSet(c.cupsPacDates, r.cups,
                               MapSet(dates, r.paciente,
                                      SetAdd(ObjGet(dates, r.paciente, <<>>), r.fecha))),
       pacCount |-> MapSet(c.pacCount, r.paciente, ObjGet(c.pacCount, r.paciente, 0) + 1),
       pacMeta |-> MapSet(c.pacMeta, r.paciente,
                          [dates |-> Append(pm.dates, r.fecha), cups |-> Append(pm.cups, r.cups)])]

\* body of filteredRegistros.forEach(r => ...)
CountRecord(c, r) ==
  LET currDup == ObjGet(c.duplicateMap, dupKey(r), [count |-> 0, record |-> r])
      cc == ObjGet(c.cupsCount, r.cups, [count |-> 0, name |-> r.nombre, type |-> r.tipo])
      pacs == ObjGet(c.cupsPacCount, r.cups, <<>>)
      dates == ObjGet(c.cupsPacDates, r.cups, <<>>)
      pm == ObjGet(c.pacMeta, r.paciente, [dates |-> <<>>, cups |-> <<>>])
  IN  [duplicateMap |-> MapSet(c.duplicateMap, dupKey(r), [currDup EXCEPT !.count = @ + 1]),
       typeCount |-> MapSet(c.typeCount, r.tipo, ObjGet(c.typeCount, r.tipo, 0) + 1),
       cupsCount |-> MapSet(c.cupsCount, r.cups, [cc EXCEPT !.count = @ + 1]),
       cupsPacCount |-> MapSet(c.cupsPacCount, r.cups,
                               MapSet(pacs, r.paciente, ObjGet(pacs, r.paciente, 0) + 1)),
       cupsPacDates |-> MapSet(c.cupsPacDates, r.cups,
                               MapSet(dates, r.paciente,
                                      SetAdd(ObjGet(dates, r.paciente, <<>>), r.fecha))),
       pacCount |-> MapSet(c.pacCount, r.paciente, ObjGet(c.pacCount, r.paciente, 0) + 1),
       pacMeta |-> MapSet(c.pacMeta, r.paciente,
                          [dates |-> Append(pm.dates, r.fecha), cups |-> Append(pm.cups, r.cups)])]

RECURSIVE CountRecords(_, _)
CountRecords(c, regs) ==
  IF regs = <<>> THEN c ELSE CountRecords(CountRecord(c, Head(regs)), Tail(regs))

\* DuplicatesList that lists every key of duplicateMap
DuplicatesListAll(c, users) ==
  LET dups == c.duplicateMap
  IN  [i \in 1..Len(dups) |->
        [id |-> dups[i].key,
         paciente |-> dups[i].val.record.paciente,
         nombre_paciente |-> IF MapHas(users, dups[i].val.record.paciente)
                                /\ MapGet(users, dups[i].val.record.paciente).nombre # ""
                             THEN MapGet(users, dups[i].val.record.paciente).nombre
                             ELSE "NO REGISTRADO",
         cups |-> dups[i].val.record.cups,
         nombre_cups |-> dups[i].val.record.nombre,
         fecha |-> dups[i].val.record.fecha,
         repeticiones |-> dups[i].val.count]]

\* duplicateMap.forEach((val, key) => { if (val.count > 1) duplicatesList.push(...) })
DuplicatesList(c, users) ==
  LET dups == SelectSeq(c.duplicateMap, LAMBDA e : e.val.count > 1)
  IN  [i \in 1..Len(dups) |->
        [id |-> dups[i].key,
         paciente |-> dups[i].val.record.paciente,
         nombre_paciente |-> IF MapHas(users, dups[i].val.record.paciente)
                                /\ MapGet(users, dups[i].val.record.paciente).nombre # ""
                             THEN MapGet(users, dups[i].val.record.paciente).nombre
                             ELSE "NO REGISTRADO",
         cups |-> dups[i].val.record.cups,
         nombre_cups |-> dups[i].val.record.nombre,
         fecha |-> dups[i].val.record.fecha,
         repeticiones |-> dups[i].val.count]]

\* RoundPct that drops the fraction
RoundPctFloor(ejecutado, totalMeta) == (100 * ejecutado) \div totalMeta

\* Math.round(ejecutado / totalMeta * 100) for totalMeta > 0: the nearest
\* integer, the upper one of two that are equally near.  The quotient and
\* the product are rounded to doubles in the source; for the counts and
\* goals of this model (ejecutado <= 12 with totalMeta <= 100, and the pairs
\* of ChartCounts with ChartGoals times ChartScales) the result is that of
\* exact arithmetic.
RoundPct(ejecutado, totalMeta) == (200 * ejecutado + totalMeta) \div (2 * totalMeta)

ChartData(c, ms, sc) ==
  LET act == SelectSeq(ms, LAMBDA m : m.active)
      point(m) ==
        LET ejecutado == ObjGet(c.typeCount, m.type, 0)
            totalMeta == m.monthlyGoal * sc
            pct == IF totalMeta > 0 THEN RoundPct(ejecutado, totalMeta) ELSE 0
            capPct == IF pct > 100 THEN 100 ELSE pct
        IN  [name |-> m.type, meta |-> totalMeta, ejecutado |-> ejecutado,
             cumplimiento |-> capPct,
             color |-> IF capPct >= 100 THEN "#10b981"
                       ELSE IF capPct >= 80 THEN "#eab308" ELSE "#ef4444"]
  IN  [i \in 1..Len(act) |-> point(act[i])]

RankingCUPS(c, users, h) ==
  LET row(e) ==
        LET pacs == ObjGet(c.cupsPacCount, e.key, <<>>)
            es == ObjectEntries(pacs)
            sorted == StableSort([i \in 1..Len(es) |-> <<0 - es[i].val, es[i]>>])
            topPid == IF sorted = <<>> THEN "" ELSE sorted[1].key
            topCnt == IF sorted = <<>> THEN 0 ELSE sorted[1].val
            datesSet == ObjGet(ObjGet(c.cupsPacDates, e.key, <<>>), topPid, <<>>)
            datesStr == join(SortStrings(datesSet), ", ")
            fn == IF MapHas(users, topPid) THEN MapGet(users, topPid).fnac ELSE ""
        IN  [CUPS |-> e.key, Nombre |-> e.val.name, TipoSer |-> e.val.type,
             Cantidad |-> e.val.count, PacienteTop |-> topPid, PacienteTop_Cant |-> topCnt,
             PacienteTop_Nombre |-> IF MapHas(users, topPid) THEN MapGet(users, topPid).nombre ELSE "",
             PacienteTop_Sexo |-> IF MapHas(users, topPid) THEN MapGet(users, topPid).sexo ELSE "",
             PacienteTop_Edad |-> edadDetallada(fn, h),
             PacienteTop_GrupoEtario |-> grupoEtarioDesdeFN(fn, h),
             PacienteTop_Fechas |-> datesStr]
      entries == ObjectEntries(c.cupsCount)
      rows == [i \in 1..Len(entries) |-> row(entries[i])]
  IN  StableSort([i \in 1..Len(rows) |-> <<0 - rows[i].Cantidad, rows[i]>>])

RankingPacientes(c, users, h) ==
  LET row(e) ==
        LET pMeta == ObjGet(c.pacMeta, e.key, [cups |-> <<>>, dates |-> <<>>])
            fn == IF MapHas(users, e.key) THEN MapGet(users, e.key).fnac ELSE ""
        IN  [PacienteId |-> e.key,
             Nombre |-> IF MapHas(users, e.key) /\ MapGet(users, e.key).nombre # ""
                        THEN MapGet(users, e.key).nombre ELSE "NO REGISTRADO",
             Sexo |-> IF MapHas(users, e.key) /\ MapGet(users, e.key).sexo # ""
                      THEN MapGet(users, e.key).sexo ELSE "-",
             Edad |-> IF edadDetallada(fn, h) # "" THEN edadDetallada(fn, h) ELSE "-",
             GrupoEtario |-> IF grupoEtarioDesdeFN(fn, h) # ""
                             THEN grupoEtarioDesdeFN(fn, h) ELSE "-",
             TotalAtenciones |-> e.val,
             ListaCUPS |-> pMeta.cups,
             ListaFechas |-> pMeta.dates]
      entries == ObjectEntries(c.pacCount)
      rows == [i \in 1..Len(entries) |-> row(entries[i])]
  IN  StableSort([i \in 1..Len(rows) |-> <<0 - rows[i].TotalAtenciones, rows[i]>>])

\* the placeholder shown when a ranking is empty (an em dash in the source)
NoTop == "--"

\* Stats whose totalPatients is the number of patients of the filtered records
StatsUniquePatients(filtered, users, rankingCUPS, rankingPacientes) ==
  [totalActivities |-> Len(filtered),
   totalPatients |-> Cardinality({filtered[i].paciente : i \in 1..Len(filtered)}),
   topCupsCode |-> IF rankingCUPS = <<>> THEN NoTop ELSE rankingCUPS[1].CUPS,
   topCupsCount |-> IF rankingCUPS = <<>> THEN 0 ELSE rankingCUPS[1].Cantidad,
   topPatientId |-> IF rankingPacientes = <<>> THEN NoTop ELSE rankingPacientes[1].PacienteId,
   topPatientCount |-> IF rankingPacientes = <<>> THEN 0 ELSE rankingPacientes[1].TotalAtenciones]

Stats(filtered, users, rankingCUPS, rankingPacientes) ==
  [totalActivities |-> Len(filtered),
   totalPatients |-> Len(users),
   topCupsCode |-> IF rankingCUPS = <<>> THEN NoTop ELSE rankingCUPS[1].CUPS,
   topCupsCount |-> IF rankingCUPS = <<>> THEN 0 ELSE rankingCUPS[1].Cantidad,
   topPatientId |-> IF rankingPacientes = <<>> THEN NoTop ELSE rankingPacientes[1].PacienteId,
   topPatientCount |-> IF rankingPacientes = <<>> THEN 0 ELSE rankingPacientes[1].TotalAtenciones]

\* Aggregate over the records that are not dated after the day of the pass
AggregateToDate(regs, ms, sc, users, h) ==
  LET dated(r) == NewDate(r.fecha, h.west)
      filtered == SelectSeq(filteredRegistros(regs, ms),
                            LAMBDA r : dated(r).valid => dated(r).day <= DayNumber(h.date))
      c == CountRecords(NoCounts, filtered)
      rankingCUPS == RankingCUPS(c, users, h)
      rankingPacientes == RankingPacientes(c, users, h)
  IN  [stats |-> Stats(filtered, users, rankingCUPS, rankingPacientes),
       chartData |-> ChartData(c, ms, sc),
       rankingCUPS |-> rankingCUPS,
       rankingPacientes |-> rankingPacientes,
       duplicatesList |-> DuplicatesList(c, users)]

\* h is the clock that edadDetallada and grupoEtarioDesdeFN read
Aggregate(regs, ms, sc, users, h) ==
  LET filtered == filteredRegistros(regs, ms)
      c == CountRecords(NoCounts, filtered)
      rankingCUPS == RankingCUPS(c, users, h)
      rankingPacientes == RankingPacientes(c, users, h)
  IN  [stats |-> Stats(filtered, users, rankingCUPS, rankingPacientes),
       chartData |-> ChartData(c, ms, sc),
       rankingCUPS |-> rankingCUPS,
       rankingPacientes |-> rankingPacientes,
       duplicatesList |-> DuplicatesList(c, users)]

(***************************************************************************)
(* Duplicate management                                                    *)
(***************************************************************************)
\* a destructured element that is missing; it is === to no string
Undefined == "\tundefined"

\* registros.filter(r => ...) of handleRemoveDuplicate with its closure
\* variables keptOne and removedCount
RECURSIVE FilterDuplicate(_, _, _, _, _)
FilterDuplicate(regs, pat, cup, date, keptOne) ==
  IF regs = <<>> THEN [newRegistros |-> <<>>, removedCount |-> 0]
  ELSE LET r == Head(regs)
           hit == r.paciente = pat /\ r.cups = cup /\ r.fecha = date
           rest == FilterDuplicate(Tail(regs), pat, cup, date, keptOne \/ hit)
       IN  IF hit /\ keptOne
           THEN [rest EXCEPT !.removedCount = @ + 1]
           ELSE [rest EXCEPT !.newRegistros = <<r>> \o @]

\* RemoveDuplicate that takes an empty element of the id for a missing one
RemoveDuplicateNoEmpty(regs, dupId) ==
  LET p == split(dupId, "|")
      el(k) == IF Len(p) >= k /\ p[k] # "" THEN p[k] ELSE Undefined
  IN  FilterDuplicate(regs, el(1), el(2), el(3), FALSE)

\* const [pat, cup, date] = dupId.split('|')
RemoveDuplicate(regs, dupId) ==
  LET p == split(dupId, "|")
      el(k) == IF Len(p) >= k THEN p[k] ELSE Undefined
  IN  FilterDuplicate(regs, el(1), el(2), el(3), FALSE)

\* FilterSeen that remembers only the key of the record before
RECURSIVE FilterSeenAdjacent(_, _)
FilterSeenAdjacent(regs, seen) ==
  IF regs = <<>> THEN [newRegistros |-> <<>>, removedCount |-> 0]
  ELSE LET r == Head(regs)
           key == r.paciente \o "|" \o r.cups \o "|" \o r.fecha
           rest == FilterSeenAdjacent(Tail(regs), {key})
       IN  IF key \in seen
           THEN [rest EXCEPT !.removedCount = @ + 1]
           ELSE [rest EXCEPT !.newRegistros = <<r>> \o @]

\* FilterSeen whose key leaves out the fecha
RECURSIVE FilterSeenNoDate(_, _)
FilterSeenNoDate(regs, seen) ==
  IF regs = <<>> THEN [newRegistros |-> <<>>, removedCount |-> 0]
  ELSE LET r == Head(regs)
           key == r.paciente \o "|" \o r.cups
           rest == FilterSeenNoDate(Tail(regs), seen \cup {key})
       IN  IF key \in seen
           THEN [rest EXCEPT !.removedCount = @ + 1]
           ELSE [rest EXCEPT !.newRegistros = <<r>> \o @]

\* registros.filter(r => ...) of handleRemoveAllDuplicates with its closure
\* variables seen and removedCount
RECURSIVE FilterSeen(_, _)
FilterSeen(regs, seen) ==
  IF regs = <<>> THEN [newRegistros |-> <<>>, removedCount |-> 0]
  ELSE LET r == Head(regs)
           key == r.paciente \o "|" \o r.cups \o "|" \o r.fecha
           rest == FilterSeen(Tail(regs), seen \cup {key})
       IN  IF key \in seen
           THEN [rest EXCEPT !.removedCount = @ + 1]
           ELSE [rest EXCEPT !.newRegistros = <<r>> \o @]

RemoveAllDuplicates(regs) == FilterSeen(regs, {})

(***************************************************************************)
(* The API server and localStorage                                         *)
(***************************************************************************)
\* let db = { config: { metas: [], scale: 1 }, session: { registros: [], usuarios: [] } }
NoDb ==
  [config |-> [metas |-> <<>>, scale |-> 1],
   session |-> [registros |-> <<>>, usuarios |-> <<>>]]

\* the items under KEYS.METAS, KEYS.SCALE, KEYS.REGISTROS and KEYS.USUARIOS:
\* <<>> for an item that is not there (getItem returns null), <<v>> for an
\* item whose text is the JSON of v
NoItems == [metas |-> <<>>, scale |-> <<>>, registros |-> <<>>, usuarios |-> <<>>]

\* what becomes of a fetch: the server handled the request and answered 2xx,
\* an answer with another status came back without the handler having run,
\* or the promise rejected
Replies == {"ok", "error", "unreachable"}

\* what becomes of a localStorage.setItem: the item is stored, or the quota
\* is exceeded and setItem throws
Quotas == {"stored", "full"}

\* StorageService.saveConfig: the answer of the POST is not looked at, a
\* rejected fetch is caught, and the two setItem calls are outside the try,
\* so that an exception of setItem leaves the function.  The function has
\* no return statement.
saveConfig(db, items, ms, sc, reply, quota) ==
  [server |-> IF reply = "ok" THEN [db EXCEPT !.config = [metas |-> ms, scale |-> sc]]
              ELSE db,
   local |-> IF quota = "stored"
             THEN [items EXCEPT !.metas = <<ms>>, !.scale = <<ToString(sc)>>]
             ELSE items,
   threw |-> quota = "full",
   ret |-> "undefined"]

\* the second half of getConfig: the items under KEYS.METAS and KEYS.SCALE
ConfigFromItems(items) ==
  LET m == items.metas
      s == items.scale
  IN  IF m # <<>> \/ s # <<>>
      THEN [isNull |-> FALSE,
            metas |-> IF m # <<>> THEN m[1] ELSE <<>>,
            scale |-> IF s # <<>> THEN ParseDigits(s[1]) ELSE 1]
      ELSE [isNull |-> TRUE, metas |-> <<>>, scale |-> 0]

\* StorageService.getConfig: the answer of the server is copied to the
\* items and returned; when the fetch rejects, the answer is not ok or a
\* setItem throws (all inside the try), the items are read instead
getConfig(db, items, reply, quota) ==
  LET data == db.config
  IN  IF reply = "ok" /\ quota = "stored"
      THEN [local |-> [items EXCEPT !.metas = <<data.metas>>,
                                    !.scale = IF data.scale # 0 THEN <<ToString(data.scale)>>
                                              ELSE @],
            threw |-> FALSE,
            ret |-> [isNull |-> FALSE, metas |-> data.metas, scale |-> data.scale]]
      ELSE [local |-> items, threw |-> FALSE, ret |-> ConfigFromItems(items)]

\* StorageService.saveSessionData: saved is set by an ok answer of the
\* server and by the two setItem calls, which are inside a try of their own
saveSessionData(db, items, regs, usuarios, reply, quota) ==
  [server |-> IF reply = "ok"
              THEN [db EXCEPT !.session = [registros |-> regs, usuarios |-> usuarios]]
              ELSE db,
   local |-> IF quota = "stored"
             THEN [items EXCEPT !.registros = <<regs>>, !.usuarios = <<usuarios>>]
             ELSE items,
   threw |-> FALSE,
   ret |-> reply = "ok" \/ quota = "stored"]

\* StorageService.loadSessionData: the session of the server when it has
\* records, else the two items when both are there, else null
loadSessionData(db, items, reply) ==
  LET data == db.session
  IN  IF reply = "ok" /\ Len(data.registros) > 0
      THEN [isNull |-> FALSE, registros |-> data.registros, usuarios |-> data.usuarios]
      ELSE IF items.registros # <<>> /\ items.usuarios # <<>>
           THEN [isNull |-> FALSE, registros |-> items.registros[1],
                 usuarios |-> items.usuarios[1]]
           ELSE [isNull |-> TRUE, registros |-> <<>>, usuarios |-> <<>>]

\* Array.from(usuariosMap.values())
MapValues(m) == [i \in 1..Len(m) |-> m[i].val]

\* session.usuarios.forEach(u => uMap.set(u.id, u)), from the i-th on
RECURSIVE Rehydrate(_, _, _)
Rehydrate(usuarios, i, uMap) ==
  IF i > Len(usuarios) THEN uMap
  ELSE Rehydrate(usuarios, i + 1, MapSet(uMap, usuarios[i].id, usuarios[i]))

(***************************************************************************)
(* State of the App component                                              *)
(***************************************************************************)
VARIABLES
  registros,      \* useState<RipsRecord[]>
  usuariosMap,    \* useState<Map<string, UserRecord>>
  maestro,        \* useState<Map<string, MaestroCupItem>>
  metas,          \* useState<ServiceTypeMeta[]>
  scale,          \* useState<number>
  isProcessing,   \* useState<boolean>
  message,        \* useState<{type, text} | null>; n is the number interpolated in text
  showDuplicates, \* useState<boolean>
  pc,             \* where the running processFiles call is suspended
  call,           \* arguments, closure and locals of the running processFiles call
  clearPending,   \* handleClearData calls suspended at await StorageService.clearData()
  batches,        \* number of processFiles calls made so far
  hist,           \* history: the last operation that ended, its inputs and the state before it
  isSaving,       \* useState<boolean>
  now,            \* the date that new Date() returns
  server,         \* db of the API server
  local,          \* localStorage: the items under KEYS
  lastCall        \* the last call of a function of logic.ts that returned or threw

vars == <<registros, usuariosMap, maestro, metas, scale, isProcessing, message,
          showDuplicates, pc, call, clearPending, batches, hist,
          isSaving, now, server, local, lastCall>>

\* what the handlers of the upload and of the duplicate audit leave alone
others == <<isSaving, now, lastCall>>

NoMessage == [type |-> "none", text |-> "", n |-> 0]

MsgRestaurados == "Datos restaurados (Servidor/Local)."

MsgNoHayDatos == "No hay datos para guardar."

MsgSincronizados == "Datos sincronizados con éxito."

MsgErrorGuardando == "Error guardando datos (Revise conexión o tamaño)."

MsgSeleccione == "Seleccione archivos RIPS (.txt) y el Maestro CUPS (.xlsx)."

MsgErrorFormato == "Error en formato de archivos."

MsgProcesado == "Procesado: {n} registros y {m} pacientes."

MsgBaseLimpia == "Base de datos limpia correctamente."

MsgCopias == "Se eliminaron {n} copias excedentes."

MsgLimpiezaMasiva == "Limpieza masiva completada. Se eliminaron {n} registros duplicados."

\* registros, usuariosMap and maestro are the values the closure of the call
\* captured; touched tells whether another handler wrote registros or
\* usuariosMap since the call started
NoCall ==
  [ripsFiles |-> <<>>, cupsFile |-> NoFile, registros |-> <<>>, usuariosMap |-> <<>>,
   maestro |-> <<>>, touched |-> FALSE, i |-> 0,
   cupsMap |-> <<>>, newRegistros |-> <<>>, newUsuariosMap |-> <<>>]

NoKey == [paciente |-> "", cups |-> "", fecha |-> ""]

\* op is "init", "batch" (a committed batch), "failed" (a batch that threw),
\* "clear", "removeOne" or "removeAll"
NoHist ==
  [op |-> "init", registros |-> <<>>, usuariosMap |-> <<>>, maestro |-> <<>>,
   ripsFiles |-> <<>>, cupsFile |-> NoFile, touched |-> FALSE, key |-> NoKey]

\* the clock: date is the local calendar day, utcNextDay tells that the UTC
\* day is already the next one, which happens late in the day on a machine
\* west of Greenwich
Clock(y, m, d, west, utcNextDay) ==
  [date |-> [y |-> y, m |-> m, d |-> d], west |-> west, utcNextDay |-> utcNextDay]

FirstDay == Clock(2024, 3, 4, FALSE, FALSE)

\* the instants at which the model reads the clock
Clocks ==
  { Clock(2024, 3, 4, FALSE, FALSE), Clock(2024, 3, 5, FALSE, FALSE),
    Clock(2024, 3, 4, TRUE, FALSE), Clock(2024, 3, 4, TRUE, TRUE),
    Clock(2024, 3, 5, TRUE, FALSE) }

\* h is an earlier instant than g on the same machine
Earlier(h, g) ==
  /\ h.west = g.west
  /\ \/ DayNumber(h.date) < DayNumber(g.date)
     \/ h.date = g.date /\ ~h.utcNextDay /\ g.utcNextDay

\* at is the clock at the time of the call
NoLogicCall ==
  [fn |-> "none", arg |-> "", at |-> FirstDay, threw |-> FALSE, ret |-> "",
   net |-> "none", disk |-> "none"]

\* the derived values of the current render
agg == Aggregate(registros, metas, scale, usuariosMap, now)

\* agg.duplicatesList alone
duplicatesList ==
  DuplicatesList(CountRecords(NoCounts, filteredRegistros(registros, metas)), usuariosMap)

Init ==
  /\ registros = <<>>
  /\ usuariosMap = <<>>
  /\ maestro = <<>>
  /\ metas = [i \in 1..Len(TIPOS_SERVICIOS_DEFAULT) |->
                [type |-> TIPOS_SERVICIOS_DEFAULT[i], monthlyGoal |-> 0, active |-> TRUE]]
  /\ scale = 1
  /\ isProcessing = FALSE
  /\ message = NoMessage
  /\ showDuplicates = FALSE
  /\ pc = "idle"
  /\ call = NoCall
  /\ clearPending = 0
  /\ batches = 0
  /\ hist = NoHist
  /\ isSaving = FALSE
  /\ now = FirstDay
  /\ server = NoDb
  /\ local = NoItems
  /\ lastCall = NoLogicCall

(***************************************************************************)
(* processFiles                                                            *)
(***************************************************************************)
\* processFiles that sets isProcessing before it validates its arguments
processFilesBusyFirst(ripsFiles, cupsFile) ==
  /\ ~isProcessing
  /\ pc = "idle"
  /\ batches < MaxBatches
  /\ batches' = batches + 1
  /\ isProcessing' = TRUE
  /\ IF Len(ripsFiles) = 0 \/ cupsFile = NoFile
     THEN /\ message' = [type |-> "error", text |-> MsgSeleccione, n |-> 0]
          /\ UNCHANGED <<pc, call, hist>>
     ELSE /\ message' = NoMessage
          /\ pc' = "catalog"
          /\ call' = [NoCall EXCEPT !.ripsFiles = ripsFiles, !.cupsFile = cupsFile,
                                    !.registros = registros, !.usuariosMap = usuariosMap,
                                    !.maestro = maestro]
          /\ UNCHANGED hist
  /\ UNCHANGED <<registros, usuariosMap, maestro, metas, scale, showDuplicates, clearPending>>
  /\ UNCHANGED <<others, server, local>>

\* the call up to its first await (the submit button is disabled while
\* isProcessing)
processFiles(ripsFiles, cupsFile) ==
  /\ ~isProcessing
  /\ pc = "idle"
  /\ batches < MaxBatches
  /\ batches' = batches + 1
  /\ IF Len(ripsFiles) = 0 \/ cupsFile = NoFile
     THEN /\ message' = [type |-> "error", text |-> MsgSeleccione, n |-> 0]
          /\ UNCHANGED <<isProcessing, pc, call, hist>>
     ELSE /\ isProcessing' = TRUE
          /\ message' = NoMessage
          /\ pc' = "catalog"
          /\ call' = [NoCall EXCEPT !.ripsFiles = ripsFiles, !.cupsFile = cupsFile,
                                    !.registros = registros, !.usuariosMap = usuariosMap,
                                    !.maestro = maestro]
          /\ UNCHANGED hist
  /\ UNCHANGED <<registros, usuariosMap, maestro, metas, scale, showDuplicates, clearPending>>
  /\ UNCHANGED <<others, server, local>>

\* catch (e) { setMessage(error) } finally { setIsProcessing(false) }
BatchFailed ==
  /\ message' = [type |-> "error", text |-> MsgErrorFormato, n |-> 0]
  /\ isProcessing' = FALSE
  /\ pc' = "idle"
  /\ call' = NoCall
  /\ hist' = [NoHist EXCEPT !.op = "failed", !.registros = call.registros,
                            !.usuariosMap = call.usuariosMap, !.maestro = call.maestro,
                            !.touched = call.touched]

\* the catalog workbook was read and parsed: lines 198-218
CatalogLoaded ==
  /\ pc = "catalog"
  /\ LET cupsMap == BuildCupsMap(call.cupsFile, <<>>)
     IN  /\ maestro' = cupsMap
         /\ call' = [call EXCEPT !.cupsMap = cupsMap, !.newRegistros = <<>>,
                                 !.newUsuariosMap = call.usuariosMap, !.i = 1]
  /\ pc' = "file"
  /\ UNCHANGED <<registros, usuariosMap, metas, scale, isProcessing, message,
                 showDuplicates, clearPending, batches, hist>>
  /\ UNCHANGED <<others, server, local>>

\* cupsFile.arrayBuffer(), read() or sheet_to_json() threw
CatalogFailed ==
  /\ pc = "catalog"
  /\ BatchFailed
  /\ UNCHANGED <<registros, usuariosMap, maestro, metas, scale, showDuplicates,
                 clearPending, batches>>
  /\ UNCHANGED <<others, server, local>>

\* file.text() of file i resolved: its lines are processed; after the last
\* file the batch is committed
FileLoaded ==
  /\ pc = "file"
  /\ LET st == ProcessFile(call.newRegistros, call.newUsuariosMap,
                           call.ripsFiles[call.i], call.cupsMap)
     IN  IF call.i < Len(call.ripsFiles)
         THEN /\ call' = [call EXCEPT !.newRegistros = st.regs, !.newUsuariosMap = st.users,
                                      !.i = call.i + 1]
              /\ UNCHANGED <<registros, usuariosMap, isProcessing, message, pc, hist>>
         ELSE /\ registros' = st.regs
              /\ usuariosMap' = st.users
              /\ message' = [type |-> "success", text |-> MsgProcesado, n |-> Len(st.regs)]
              /\ isProcessing' = FALSE
              /\ pc' = "idle"
              /\ call' = NoCall
              /\ hist' = [NoHist EXCEPT !.op = "batch", !.ripsFiles = call.ripsFiles,
                                        !.cupsFile = call.cupsFile,
                                        !.registros = call.registros,
                                        !.usuariosMap = call.usuariosMap]
  /\ UNCHANGED <<maestro, metas, scale, showDuplicates, clearPending, batches>>
  /\ UNCHANGED <<others, server, local>>

\* file.text() of file i rejected
FileFailed ==
  /\ pc = "file"
  /\ BatchFailed
  /\ UNCHANGED <<registros, usuariosMap, maestro, metas, scale, showDuplicates,
                 clearPending, batches>>
  /\ UNCHANGED <<others, server, local>>

(***************************************************************************)
(* The other handlers                                                      *)
(***************************************************************************)
\* another handler wrote registros or usuariosMap while a batch is running
Touch(c) == [c EXCEPT !.touched = (pc # "idle")]

\* handleClearData up to await StorageService.clearData(), confirm() accepted
handleClearData ==
  /\ clearPending < MaxPendingClears
  /\ registros' = <<>>
  /\ usuariosMap' = <<>>
  /\ clearPending' = clearPending + 1
  /\ hist' = [NoHist EXCEPT !.op = "clear"]
  /\ call' = Touch(call)
  /\ UNCHANGED <<maestro, metas, scale, isProcessing, message, showDuplicates, pc, batches>>
  /\ UNCHANGED <<others, server, local>>

\* handleClearData after the await
ClearDataDone ==
  /\ clearPending > 0
  /\ clearPending' = clearPending - 1
  /\ \E reply \in Replies :
        /\ server' = IF reply = "ok" THEN [server EXCEPT !.session = NoDb.session] ELSE server
        /\ local' = [local EXCEPT !.registros = <<>>, !.usuarios = <<>>]
  /\ message' = [type |-> "success", text |-> MsgBaseLimpia, n |-> 0]
  /\ UNCHANGED <<registros, usuariosMap, maestro, metas, scale, isProcessing,
                 showDuplicates, pc, call, batches, hist, others>>

\* the "Auditoría Duplicados" button, rendered when duplicatesList.length > 0
OpenDuplicates ==
  /\ ~showDuplicates
  /\ Len(duplicatesList) > 0
  /\ showDuplicates' = TRUE
  /\ UNCHANGED <<registros, usuariosMap, maestro, metas, scale, isProcessing, message,
                 pc, call, clearPending, batches, hist>>
  /\ UNCHANGED <<others, server, local>>

CloseDuplicates ==
  /\ showDuplicates
  /\ showDuplicates' = FALSE
  /\ UNCHANGED <<registros, usuariosMap, maestro, metas, scale, isProcessing, message,
                 pc, call, clearPending, batches, hist>>
  /\ UNCHANGED <<others, server, local>>

\* the row button of the modal: handleRemoveDuplicate(d.id)
handleRemoveDuplicate(d) ==
  /\ showDuplicates
  /\ LET res == RemoveDuplicate(registros, d.id)
     IN  /\ registros' = res.newRegistros
         /\ message' = [type |-> "success", text |-> MsgCopias, n |-> res.removedCount]
  /\ hist' = [NoHist EXCEPT !.op = "removeOne", !.registros = registros,
                !.key = [paciente |-> d.paciente, cups |-> d.cups, fecha |-> d.fecha]]
  /\ call' = Touch(call)
  /\ UNCHANGED <<usuariosMap, maestro, metas, scale, isProcessing, showDuplicates,
                 pc, clearPending, batches>>
  /\ UNCHANGED <<others, server, local>>

\* "Limpieza Masiva" in the modal, confirm() accepted
handleRemoveAllDuplicates ==
  /\ showDuplicates
  /\ LET res == RemoveAllDuplicates(registros)
     IN  /\ registros' = res.newRegistros
         /\ message' = [type |-> "success", text |-> MsgLimpiezaMasiva, n |-> res.removedCount]
  /\ showDuplicates' = FALSE
  /\ hist' = [NoHist EXCEPT !.op = "removeAll", !.registros = registros]
  /\ call' = Touch(call)
  /\ UNCHANGED <<usuariosMap, maestro, metas, scale, isProcessing, pc,
                 clearPending, batches>>
  /\ UNCHANGED <<others, server, local>>

\* the checkbox of goal idx: nm[idx].active = e.target.checked; setMetas(nm)
ToggleActive(idx) ==
  /\ metas' = [metas EXCEPT ![idx].active = ~@]
  /\ UNCHANGED <<registros, usuariosMap, maestro, scale, isProcessing, message,
                 showDuplicates, pc, call, clearPending, batches, hist>>
  /\ UNCHANGED <<others, server, local>>

Next ==
  \/ \E ripsFiles \in RipsFileLists, cupsFile \in CupsFiles : processFiles(ripsFiles, cupsFile)
  \/ CatalogLoaded
  \/ CatalogFailed
  \/ FileLoaded
  \/ FileFailed
  \/ handleClearData
  \/ ClearDataDone
  \/ OpenDuplicates
  \/ CloseDuplicates
  \/ \E k \in 1..Len(duplicatesList) : handleRemoveDuplicate(duplicatesList[k])
  \/ handleRemoveAllDuplicates
  \/ \E idx \in ToggledGoals : ToggleActive(idx)

Spec == Init /\ [][Next]_vars

(***************************************************************************)
(* The goal table and the period selector, on a loaded batch               *)
(***************************************************************************)
\* the goals whose monthly goal the user edits, the values typed and the
\* options of the period selector
EditedGoals == {2, 8}

GoalValues == {-1, 0, 1, 4, 7}

Scales == {1, 2, 3, 6, 12}

\* the for loop of processFiles over all the files of a batch
RECURSIVE ProcessFilesFrom(_, _, _, _)
ProcessFilesFrom(st, ripsFiles, i, cupsMap) ==
  IF i > Len(ripsFiles) THEN st
  ELSE ProcessFilesFrom(ProcessFile(st.regs, st.users, ripsFiles[i], cupsMap),
                        ripsFiles, i + 1, cupsMap)

\* the App after start-up and one batch that was committed
InitGoals ==
  \E ripsFiles \in RipsFileLists \ {<<>>}, cupsFile \in {CatalogA, CatalogB} :
    LET cupsMap == BuildCupsMap(cupsFile, <<>>)
        st == ProcessFilesFrom([regs |-> <<>>, users |-> <<>>], ripsFiles, 1, cupsMap)
    IN  /\ registros = st.regs
        /\ usuariosMap = st.users
        /\ maestro = cupsMap
        /\ metas = [i \in 1..Len(TIPOS_SERVICIOS_DEFAULT) |->
                      [type |-> TIPOS_SERVICIOS_DEFAULT[i], monthlyGoal |-> 0, active |-> TRUE]]
        /\ scale = 1
        /\ isProcessing = FALSE
        /\ message = [type |-> "success", text |-> MsgProcesado, n |-> Len(st.regs)]
        /\ showDuplicates = FALSE
        /\ pc = "idle"
        /\ call = NoCall
        /\ clearPending = 0
        /\ batches = 1
        /\ hist = [NoHist EXCEPT !.op = "batch", !.ripsFiles = ripsFiles, !.cupsFile = cupsFile]
        /\ isSaving = FALSE
        /\ now \in {h \in Clocks : \A g \in Clocks : ~Earlier(g, h)}
        /\ server = NoDb
        /\ local = NoItems
        /\ lastCall = NoLogicCall

\* onChange of the goal input:
\* nm[idx].monthlyGoal = Number(e.target.value); setMetas(nm)
SetGoal(idx, v) ==
  /\ metas' = [metas EXCEPT ![idx].monthlyGoal = v]
  /\ UNCHANGED <<registros, usuariosMap, maestro, scale, isProcessing, message,
                 showDuplicates, pc, call, clearPending, batches, hist, others, server, local>>

\* onChange of the period selector: setScale(Number(e.target.value))
SetScale(v) ==
  /\ scale' = v
  /\ UNCHANGED <<registros, usuariosMap, maestro, metas, isProcessing, message,
                 showDuplicates, pc, call, clearPending, batches, hist, others, server, local>>

\* time passes
Tick ==
  /\ \E h \in Clocks : Earlier(now, h) /\ now' = h
  /\ UNCHANGED <<registros, usuariosMap, maestro, metas, scale, isProcessing, message,
                 showDuplicates, pc, call, clearPending, batches, hist, isSaving,
                 lastCall, server, local>>

NextGoals ==
  \/ \E idx \in EditedGoals, v \in GoalValues : SetGoal(idx, v)
  \/ \E v \in Scales : SetScale(v)
  \/ \E idx \in ToggledGoals : ToggleActive(idx)
  \/ Tick

SpecGoals == InitGoals /\ [][NextGoals]_vars

(***************************************************************************)
(* The functions of logic.ts and the chart, on their own                   *)
(***************************************************************************)
\* identifier texts: plain, prefixed, with separators, with a prefix behind
\* a prefix, with letters behind the prefix, with a separator in front
IdInputs ==
  { "", "1234567", "CC-1234567", " cc 123 ", "RC.123-4", "TI", "TICKET9", "ce99x",
    "CCCC12", "CC-TI123", "-CC123", "PA PE 7" }

\* birth dates: none, not a date, day first, month first, in the future, and
\* dates around the limits of the brackets on the days of Clocks
BirthDates ==
  { "", "1990-13-01", "25/12/2010", "02/03/2015", "2025-01-01", "2019-03-31",
    "2019-02-28", "2012-03-05", "2006-03-05", "1995-03-05", "1964-03-05", "1964-03-04" }

InitLogic ==
  /\ registros = <<>>
  /\ usuariosMap = <<>>
  /\ maestro = <<>>
  /\ metas = [i \in 1..Len(TIPOS_SERVICIOS_DEFAULT) |->
                [type |-> TIPOS_SERVICIOS_DEFAULT[i], monthlyGoal |-> 0, active |-> TRUE]]
  /\ scale = 1
  /\ isProcessing = FALSE
  /\ message = NoMessage
  /\ showDuplicates = FALSE
  /\ pc = "idle"
  /\ call = NoCall
  /\ clearPending = 0
  /\ batches = 0
  /\ hist = NoHist
  /\ isSaving = FALSE
  /\ now \in {h \in Clocks : \A g \in Clocks : ~Earlier(g, h)}
  /\ server = NoDb
  /\ local = NoItems
  /\ lastCall = NoLogicCall

\* what a call of a function of logic.ts leaves alone
component ==
  <<registros, usuariosMap, maestro, metas, scale, isProcessing, message,
    showDuplicates, pc, call, clearPending, batches, hist, isSaving>>

\* normalizeId(v), on a text or on the result of the call before
CallNormalizeId(v) ==
  /\ lastCall' = [fn |-> "normalizeId", arg |-> v, at |-> now, threw |-> FALSE,
                  ret |-> normalizeId(v),
                  net |-> "none", disk |-> "none"]
  /\ UNCHANGED <<component, now, server, local>>

CallGrupoEtarioDesdeFN(fn) ==
  /\ lastCall' = [fn |-> "grupoEtarioDesdeFN", arg |-> fn, at |-> now, threw |-> FALSE,
                  ret |-> grupoEtarioDesdeFN(fn, now),
                  net |-> "none", disk |-> "none"]
  /\ UNCHANGED <<component, now, server, local>>

\* numbers of filtered records of one type, goals and periods around the
\* point where the rounded percentage reaches 100
ChartCounts == {0, 1, 199, 200, 597, 598, 600}

ChartGoals == {0, 200}

ChartScales == {1, 3}

\* the chart points of the aggregation for e filtered records of the first
\* type, the goal g of that type and the period sc
CallChartData(e, g, sc) ==
  /\ lastCall' = [fn |-> "chartData",
                  arg |-> [ejecutado |-> e, monthlyGoal |-> g, scale |-> sc],
                  at |-> now, threw |-> FALSE,
                  ret |-> ChartData([NoCounts EXCEPT
                                       !.typeCount = IF e = 0 THEN <<>>
                                                     ELSE MapSet(<<>>, metas[1].type, e)],
                                    [metas EXCEPT ![1].monthlyGoal = g], sc),
                  net |-> "none", disk |-> "none"]
  /\ UNCHANGED <<component, now, server, local>>

NextLogic ==
  \/ \E v \in IdInputs : CallNormalizeId(v)
  \/ \E e \in ChartCounts, g \in ChartGoals, sc \in ChartScales : CallChartData(e, g, sc)
  \/ lastCall.fn = "normalizeId" /\ CallNormalizeId(lastCall.ret)
  \/ \E fn \in BirthDates : CallGrupoEtarioDesdeFN(fn)
  \/ Tick

SpecLogic == InitLogic /\ [][NextLogic]_vars

(***************************************************************************)
(* Persistence: initData, the effect that saves the configuration and      *)
(* handleSaveSession, on a loaded batch with an empty server and empty     *)
(* items.  pc is the await at which initData or handleSaveSession is       *)
(* suspended.                                                              *)
(***************************************************************************)
ConfigGoals == {4}

ConfigScales == {1, 3}

\* the files of the batch that is in memory at the start
StoredBatch == <<FileUS2, FileAP>>

InitStorage ==
  InitGoals /\ hist.ripsFiles = StoredBatch /\ hist.cupsFile = CatalogA /\ now = FirstDay

\* every call of StorageService is recorded with the answer of the server
\* and the outcome of setItem
StorageCall(fn, reply, quota, threw, ret) ==
  [NoLogicCall EXCEPT !.fn = fn, !.at = now, !.threw = threw, !.ret = ret,
                      !.net = reply, !.disk = quota]

\* the page is loaded again: the component is constructed and the effect
\* starts initData, which awaits StorageService.getConfig()
Reload ==
  /\ registros' = <<>>
  /\ usuariosMap' = <<>>
  /\ maestro' = <<>>
  /\ metas' = [i \in 1..Len(TIPOS_SERVICIOS_DEFAULT) |->
                 [type |-> TIPOS_SERVICIOS_DEFAULT[i], monthlyGoal |-> 0, active |-> TRUE]]
  /\ scale' = 1
  /\ isProcessing' = FALSE
  /\ message' = NoMessage
  /\ showDuplicates' = FALSE
  /\ pc' = "getConfig"
  /\ call' = NoCall
  /\ clearPending' = 0
  /\ batches' = 0
  /\ hist' = NoHist
  /\ isSaving' = FALSE
  /\ lastCall' = NoLogicCall
  /\ UNCHANGED <<now, server, local>>

\* initData from the answer of getConfig to await loadSessionData()
InitDataConfig(reply, quota) ==
  /\ pc = "getConfig"
  /\ LET r == getConfig(server, local, reply, quota)
         config == r.ret
     IN  /\ metas' = IF ~config.isNull /\ Len(config.metas) > 0 THEN config.metas ELSE metas
         /\ scale' = IF ~config.isNull /\ config.scale # 0 THEN config.scale ELSE scale
         /\ local' = r.local
         /\ lastCall' = StorageCall("getConfig", reply, quota, r.threw,
                                    IF config.isNull THEN "null" ELSE "config")
  /\ pc' = "loadSessionData"
  /\ UNCHANGED <<registros, usuariosMap, maestro, isProcessing, message, showDuplicates,
                 call, clearPending, batches, hist, isSaving, now, server>>

\* initData from the answer of loadSessionData to its end
InitDataSession(reply) ==
  /\ pc = "loadSessionData"
  /\ LET session == loadSessionData(server, local, reply)
     IN  /\ IF session.isNull
            THEN UNCHANGED <<registros, usuariosMap, message>>
            ELSE /\ registros' = session.registros
                 /\ usuariosMap' = Rehydrate(session.usuarios, 1, <<>>)
                 /\ message' = [type |-> "info", text |-> MsgRestaurados, n |-> 0]
         /\ lastCall' = StorageCall("loadSessionData", reply, "none", FALSE,
                                    IF session.isNull THEN "null" ELSE "session")
  /\ pc' = "idle"
  /\ UNCHANGED <<maestro, metas, scale, isProcessing, showDuplicates, call, clearPending,
                 batches, hist, isSaving, now, server, local>>

\* the timer of the effect on [metas, scale] fires:
\* StorageService.saveConfig(metas, scale), whose promise nobody awaits
SaveConfigEffect(reply, quota) ==
  /\ LET r == saveConfig(server, local, metas, scale, reply, quota)
     IN  /\ server' = r.server
         /\ local' = r.local
         /\ lastCall' = StorageCall("saveConfig", reply, quota, r.threw, r.ret)
  /\ UNCHANGED <<registros, usuariosMap, maestro, metas, scale, isProcessing, message,
                 showDuplicates, pc, call, clearPending, batches, hist, isSaving, now>>

\* handleSaveSession up to await StorageService.saveSessionData(...); the
\* button is disabled while isSaving; call holds the registros and the
\* usuariosMap of the render in which the handler was created
handleSaveSession ==
  /\ pc = "idle"
  /\ ~isSaving
  /\ IF Len(registros) = 0
     THEN /\ message' = [type |-> "error", text |-> MsgNoHayDatos, n |-> 0]
          /\ UNCHANGED <<isSaving, pc, call>>
     ELSE /\ isSaving' = TRUE
          /\ pc' = "saveSessionData"
          /\ call' = [NoCall EXCEPT !.registros = registros, !.usuariosMap = usuariosMap]
          /\ UNCHANGED message
  /\ UNCHANGED <<registros, usuariosMap, maestro, metas, scale, isProcessing,
                 showDuplicates, clearPending, batches, hist, now, server, local,
                 lastCall>>

\* handleSaveSession from the answer of saveSessionData to its end
SaveSessionDone(reply, quota) ==
  /\ pc = "saveSessionData"
  /\ LET r == saveSessionData(server, local, call.registros, MapValues(call.usuariosMap),
                              reply, quota)
     IN  /\ server' = r.server
         /\ local' = r.local
         /\ message' = IF r.ret
                       THEN [type |-> "success", text |-> MsgSincronizados, n |-> 0]
                       ELSE [type |-> "error", text |-> MsgErrorGuardando, n |-> 0]
         /\ lastCall' = StorageCall("saveSessionData", reply, quota, r.threw,
                                    IF r.ret THEN "true" ELSE "false")
  /\ isSaving' = FALSE
  /\ pc' = "idle"
  /\ call' = NoCall
  /\ UNCHANGED <<registros, usuariosMap, maestro, metas, scale, isProcessing,
                 showDuplicates, clearPending, batches, hist, now>>

NextStorage ==
  \/ \E idx \in ToggledGoals, v \in ConfigGoals : SetGoal(idx, v)
  \/ \E v \in ConfigScales : SetScale(v)
  \/ Reload
  \/ \E reply \in Replies, quota \in Quotas : InitDataConfig(reply, quota)
  \/ \E reply \in Replies : InitDataSession(reply)
  \/ \E reply \in Replies, quota \in Quotas : SaveConfigEffect(reply, quota)
  \/ handleSaveSession
  \/ \E reply \in Replies, quota \in Quotas : SaveSessionDone(reply, quota)
  \/ handleClearData
  \/ ClearDataDone

SpecStorage == InitStorage /\ [][NextStorage]_vars

(***************************************************************************)
(* Properties                                                              *)
(***************************************************************************)
\* the parsed lines of a list of files, in file order then line order
RECURSIVE LinesOf(_)
LinesOf(files) ==
  IF files = <<>> THEN <<>> ELSE FileLines[Head(files)] \o LinesOf(Tail(files))

\* the roster lines of the last committed batch that were stored under id
RosterLines(id) ==
  SelectSeq(LinesOf(hist.ripsFiles),
            LAMBDA e : e.kind = "usuario" /\ e.usuario.id = id /\ Len(id) >= 3)

Last(q) == q[Len(q)]

\* C1: when the catalog or a RIPS file cannot be read, then after the batch
\* has ended registros, usuariosMap and maestro are what they were when the
\* batch started (no other handler having written them meanwhile).
C1_FailedBatchCommitsNothing ==
  (pc = "idle" /\ hist.op = "failed" /\ ~hist.touched) =>
    /\ registros = hist.registros
    /\ usuariosMap = hist.usuariosMap
    /\ maestro = hist.maestro

\* C2: after a committed batch, each of sexo, fnac and nombre of a stored
\* patient is the last non-empty value that the batch's roster lines for
\* that id supplied for the field, or else the value stored before the
\* batch, or else empty.
C2_RosterMergePerField ==
  hist.op = "batch" =>
    \A id \in MapKeys(usuariosMap) \cup MapKeys(hist.usuariosMap) :
      LET ls == RosterLines(id)
          prev == IF MapHas(hist.usuariosMap, id) THEN MapGet(hist.usuariosMap, id)
                  ELSE NoUsuario
          sexos == SelectSeq([i \in 1..Len(ls) |-> ls[i].usuario.sexo], LAMBDA v : v # "")
          fnacs == SelectSeq([i \in 1..Len(ls) |-> ls[i].usuario.fnac], LAMBDA v : v # "")
          nombres == SelectSeq([i \in 1..Len(ls) |-> ls[i].usuario.nombre], LAMBDA v : v # "")
      IN  /\ MapHas(usuariosMap, id)
          /\ MapGet(usuariosMap, id).sexo = IF sexos # <<>> THEN Last(sexos) ELSE prev.sexo
          /\ MapGet(usuariosMap, id).fnac = IF fnacs # <<>> THEN Last(fnacs) ELSE prev.fnac
          /\ MapGet(usuariosMap, id).nombre = IF nombres # <<>> THEN Last(nombres) ELSE prev.nombre

\* a batch whose later roster lines for patient 1234567 leave fnac empty and
\* give another sexo: the stored record keeps the first fnac and has the
\* last sexo
C2_Witness ==
  /\ hist.op = "batch"
  /\ hist.ripsFiles = <<FileUS>>
  /\ Len(RosterLines("1234567")) = 3
  /\ Last(RosterLines("1234567")).usuario.fnac = ""
  /\ RosterLines("1234567")[2].usuario.sexo = ""
  /\ MapHas(usuariosMap, "1234567")
  /\ MapGet(usuariosMap, "1234567").fnac = "1990-01-02"
  /\ MapGet(usuariosMap, "1234567").sexo = "F"

\* C3: every key of the roster is canonical (normalizeId leaves it
\* unchanged) and is the id of its record, and no two entries have keys
\* with the same normalizeId: identifiers written differently that
\* normalize alike share one entry.
C3_RosterKeysCanonical ==
  /\ \A i \in 1..Len(usuariosMap) :
        /\ normalizeId(usuariosMap[i].key) = usuariosMap[i].key
        /\ usuariosMap[i].val.id = usuariosMap[i].key
  /\ \A i, j \in 1..Len(usuariosMap) :
        normalizeId(usuariosMap[i].key) = normalizeId(usuariosMap[j].key) => i = j

\* the three roster lines of FileUS write the identifier as "CC-1234567",
\* "1234567" and "cc1234567": one entry results
C3_Witness ==
  /\ hist.op = "batch"
  /\ hist.ripsFiles = <<FileUS>>
  /\ hist.usuariosMap = <<>>
  /\ includes(FileUS.text, "|CC-1234567|")
  /\ includes(FileUS.text, "|1234567|")
  /\ includes(FileUS.text, "|cc1234567|")
  /\ Len(usuariosMap) = 1
  /\ usuariosMap[1].key = "1234567"

\* the rows of the catalog workbook of the last committed batch whose
\* trimmed code is c
CatalogRows(c) ==
  {k \in 1..Len(hist.cupsFile) : c # "" /\ trim(hist.cupsFile[k].cupsVigente) = c}

\* the service lines of the last committed batch, in file order then line order
ServiceLines == SelectSeq(LinesOf(hist.ripsFiles), LAMBDA e : e.kind = "servicio")

\* those whose first 6-digit token is a code of the batch's catalog
AcceptedLines == SelectSeq(ServiceLines, LAMBDA e : CatalogRows(e.servicio.cups) # {})

\* C4: every record committed by a batch has a code that the catalog of
\* that batch defines, with the type and name of the catalog's (last) row
\* for that code; the service lines whose first 6-digit token is not a
\* catalog code produce no record.
C4_RecordsFromBatchCatalog ==
  hist.op = "batch" =>
    /\ \A i \in 1..Len(registros) :
          /\ CatalogRows(registros[i].cups) # {}
          /\ LET k == CHOOSE k \in CatalogRows(registros[i].cups) :
                         \A j \in CatalogRows(registros[i].cups) : j <= k
             IN  /\ registros[i].tipo = trim(hist.cupsFile[k].tipoSer)
                 /\ registros[i].nombre = trim(hist.cupsFile[k].nombreCups)
    /\ Len(registros) = Len(AcceptedLines)

\* a batch with a line for code 999999, which CatalogA does not define, and
\* lines for 890201, which CatalogA defines twice
C4_Witness ==
  /\ hist.op = "batch"
  /\ hist.cupsFile = CatalogA
  /\ \E i \in 1..Len(ServiceLines) : ServiceLines[i].servicio.cups = "999999"
  /\ Len(AcceptedLines) < Len(ServiceLines)
  /\ Cardinality(CatalogRows("890201")) = 2
  /\ \E i \in 1..Len(registros) :
        registros[i].cups = "890201" /\ registros[i].nombre = "CONSULTA ODONTOLOGIA"

\* C5: after a committed batch registros is one record per accepted service
\* line of the batch's files, in file order then line order, repeated lines
\* included, and nothing of the list before; usuariosMap has the keys it had
\* when the batch started plus the ids of the batch's roster lines, and the
\* patients without a roster line in the batch are unchanged.
C5_BatchReplacesRecordsKeepsRoster ==
  hist.op = "batch" =>
    /\ Len(registros) = Len(AcceptedLines)
    /\ \A i \in 1..Len(registros) :
          /\ registros[i].cups = AcceptedLines[i].servicio.cups
          /\ registros[i].paciente = AcceptedLines[i].servicio.paciente
          /\ registros[i].fecha = AcceptedLines[i].servicio.fecha
    /\ MapKeys(usuariosMap) =
         MapKeys(hist.usuariosMap) \cup {id \in {e.usuario.id : e \in
                                           {LinesOf(hist.ripsFiles)[i] : i \in 1..Len(LinesOf(hist.ripsFiles))}} :
                                         RosterLines(id) # <<>>}
    /\ \A id \in MapKeys(hist.usuariosMap) :
          RosterLines(id) = <<>> => MapGet(usuariosMap, id) = MapGet(hist.usuariosMap, id)

\* a second batch, started with records and patients present: its four
\* records (two pairs of equal ones) replace the list, and patient 1234567,
\* who has no roster line in it, is still there
C5_Witness ==
  /\ hist.op = "batch"
  /\ hist.ripsFiles = <<FileAC>>
  /\ hist.registros # <<>>
  /\ \E i \in 1..Len(hist.registros) : \A j \in 1..Len(registros) : registros[j] # hist.registros[i]
  /\ Len(registros) = 4
  /\ registros[1] = registros[3]
  /\ MapHas(hist.usuariosMap, "1234567")
  /\ MapHas(usuariosMap, "1234567")

\* the (paciente, cups, fecha) key of a record
Triple(r) == <<r.paciente, r.cups, r.fecha>>

\* the elements of b at the indices of I, in the order of b
Sub(b, I) ==
  [k \in 1..Cardinality(I) |-> b[CHOOSE i \in I : Cardinality({j \in I : j <= i}) = k]]

\* the indices of b whose record is the first of b with its key
FirstOfKey(b) == {i \in 1..Len(b) : \A j \in 1..(i - 1) : Triple(b[j]) # Triple(b[i])}

\* C6: remove-all-duplicates leaves, of the list it was applied to, for every
\* (paciente, cups, fecha) key the first record with that key and no other,
\* in their original order, and the count it reports is the length of the
\* list before minus the length after.
C6_RemoveAllKeepsFirstOfEachKey ==
  hist.op = "removeAll" =>
    /\ registros = Sub(hist.registros, FirstOfKey(hist.registros))
    /\ message.text = MsgLimpiezaMasiva =>
          message.n = Len(hist.registros) - Len(registros)

\* remove-all-duplicates applied to a list where records of another key lie
\* between two records of the same key: two records removed
C6_Witness ==
  /\ hist.op = "removeAll"
  /\ Len(hist.registros) = 4
  /\ Triple(hist.registros[1]) = Triple(hist.registros[3])
  /\ Triple(hist.registros[2]) = Triple(hist.registros[4])
  /\ Triple(hist.registros[1]) # Triple(hist.registros[2])
  /\ registros = <<hist.registros[1], hist.registros[2]>>
  /\ message.text = MsgLimpiezaMasiva
  /\ message.n = 2

\* the indices of b that remove-one-group for key k keeps
KeptForKey(b, k) ==
  {i \in 1..Len(b) : Triple(b[i]) = k => \A j \in 1..(i - 1) : Triple(b[j]) # k}

\* C7: remove-one-group for a key leaves the first record with that key,
\* removes every later record with it, leaves every record of another key
\* in place and in order, and reports the number removed; also for a key
\* whose fecha is empty.
C7_RemoveOneGroupKeepsFirst ==
  hist.op = "removeOne" =>
    /\ registros = Sub(hist.registros, KeptForKey(hist.registros, Triple(hist.key)))
    /\ message.text = MsgCopias =>
          message.n = Cardinality({i \in 1..Len(hist.registros) :
                                    Triple(hist.registros[i]) = Triple(hist.key)}) - 1

\* remove-one-group for a key with empty fecha whose three records are not
\* adjacent: two removed, the records of other keys stay
C7_Witness ==
  /\ hist.op = "removeOne"
  /\ hist.key.fecha = ""
  /\ Cardinality({i \in 1..Len(hist.registros) : Triple(hist.registros[i]) = Triple(hist.key)}) = 3
  /\ Len(registros) = Len(hist.registros) - 2
  /\ \E i \in 1..Len(registros) : Triple(registros[i]) # Triple(hist.key)
  /\ message.text = MsgCopias
  /\ message.n = 2

\* the records whose tipo is the type of a goal that is active
ActiveRecords ==
  SelectSeq(registros, LAMBDA r : \E i \in 1..Len(metas) : metas[i].active /\ metas[i].type = r.tipo)

\* the indices of the active records with key t
WithKey(t) == {i \in 1..Len(ActiveRecords) : Triple(ActiveRecords[i]) = t}

\* C8: the duplicate list has exactly one entry for every key that more
\* than one active record has, and no other entry; the entry's repeticiones
\* is the number of active records with the key, and its fields are those
\* of the first of them.
C8_DuplicateListExact ==
  LET a == agg
      dl == a.duplicatesList
      key(d) == <<d.paciente, d.cups, d.fecha>>
  IN  /\ \A i \in 1..Len(ActiveRecords) :
            Cardinality(WithKey(Triple(ActiveRecords[i]))) > 1 =>
              Cardinality({k \in 1..Len(dl) : key(dl[k]) = Triple(ActiveRecords[i])}) = 1
      /\ \A k \in 1..Len(dl) :
            /\ Cardinality(WithKey(key(dl[k]))) > 1
            /\ dl[k].repeticiones = Cardinality(WithKey(key(dl[k])))
            /\ dl[k].id = dupKey(ActiveRecords[CHOOSE i \in WithKey(key(dl[k])) :
                                                  \A j \in WithKey(key(dl[k])) : i <= j])
            /\ dl[k].nombre_cups = ActiveRecords[CHOOSE i \in WithKey(key(dl[k])) :
                                                   \A j \in WithKey(key(dl[k])) : i <= j].nombre

\* active records of which three have one key and the others are alone with
\* theirs: one entry, with repeticiones 3
C8_Witness ==
  /\ Len(agg.duplicatesList) = 1
  /\ agg.duplicatesList[1].repeticiones = 3
  /\ Len(ActiveRecords) > 3
  /\ \E i \in 1..Len(ActiveRecords) : Cardinality(WithKey(Triple(ActiveRecords[i]))) = 1

\* the indices of the active records with a given tipo, cups or paciente
WithTipo(t) == {i \in 1..Len(ActiveRecords) : ActiveRecords[i].tipo = t}

WithCups(c) == {i \in 1..Len(ActiveRecords) : ActiveRecords[i].cups = c}

WithPaciente(pid) == {i \in 1..Len(ActiveRecords) : ActiveRecords[i].paciente = pid}

\* every derived value of the current render counts the active records and
\* nothing else
CountsActiveRecordsOnly ==
  LET a == agg
      codes == {ActiveRecords[i].cups : i \in 1..Len(ActiveRecords)}
      pacientes == {ActiveRecords[i].paciente : i \in 1..Len(ActiveRecords)}
  IN  /\ a.stats.totalActivities = Len(ActiveRecords)
      /\ \A k \in 1..Len(a.chartData) :
            a.chartData[k].ejecutado = Cardinality(WithTipo(a.chartData[k].name))
      /\ {a.rankingCUPS[k].CUPS : k \in 1..Len(a.rankingCUPS)} = codes
      /\ \A k \in 1..Len(a.rankingCUPS) :
            LET row == a.rankingCUPS[k]
            IN  /\ row.Cantidad = Cardinality(WithCups(row.CUPS))
                /\ row.PacienteTop_Cant =
                     Cardinality(WithCups(row.CUPS) \cap WithPaciente(row.PacienteTop))
      /\ {a.rankingPacientes[k].PacienteId : k \in 1..Len(a.rankingPacientes)} = pacientes
      /\ \A k \in 1..Len(a.rankingPacientes) :
            LET row == a.rankingPacientes[k]
                own == WithPaciente(row.PacienteId)
            IN  /\ row.TotalAtenciones = Cardinality(own)
                /\ row.ListaCUPS = [i \in 1..Cardinality(own) |-> Sub(ActiveRecords, own)[i].cups]
      /\ \A k \in 1..Len(a.duplicatesList) :
            LET d == a.duplicatesList[k]
            IN  d.repeticiones = Cardinality(WithKey(<<d.paciente, d.cups, d.fecha>>))

\* C9: totalActivities, the per-type counts, the code ranking, the patient
\* ranking and the duplicate list are computed from exactly the records
\* whose tipo is the type of an active goal, and a step that changes the
\* goals leaves registros as it is.
C9_ActiveTypeFilter ==
  /\ []CountsActiveRecordsOnly
  /\ [][metas' # metas => registros' = registros]_vars

\* the PEDIATRIA goal switched off while registros has PEDIATRIA records and
\* records of an active type: only the latter are counted
C9_Witness ==
  /\ ~metas[8].active
  /\ metas[8].type = "PEDIATRIA"
  /\ \E i \in 1..Len(registros) : registros[i].tipo = "PEDIATRIA"
  /\ agg.stats.totalActivities > 0
  /\ agg.stats.totalActivities < Len(registros)
  /\ \A k \in 1..Len(agg.rankingCUPS) : agg.rankingCUPS[k].TipoSer # "PEDIATRIA"

\* the index of the first active record with code c
FirstSeen(c) ==
  CHOOSE i \in WithCups(c) : \A j \in WithCups(c) : i <= j

\* C10: the code ranking has one row per distinct code of the active
\* records, ordered by count descending, and two codes with the same count
\* are in the order in which they were first seen in the record list.
C10_CodeRankingOrder ==
  LET a == agg
      rk == a.rankingCUPS
  IN  /\ Len(rk) = Cardinality({ActiveRecords[i].cups : i \in 1..Len(ActiveRecords)})
      /\ \A k \in 1..Len(rk) : WithCups(rk[k].CUPS) # {}
      /\ \A k, l \in 1..Len(rk) :
            k < l =>
              /\ rk[k].CUPS # rk[l].CUPS
              /\ rk[k].Cantidad >= rk[l].Cantidad
              /\ rk[k].Cantidad = rk[l].Cantidad =>
                    FirstSeen(rk[k].CUPS) < FirstSeen(rk[l].CUPS)

\* the active records of code c that belong to patient pid
OfCodeAndPatient(c, pid) == WithCups(c) \cap WithPaciente(pid)

\* the index of the first active record of code c that belongs to pid
FirstOfPatient(c, pid) ==
  CHOOSE i \in OfCodeAndPatient(c, pid) : \A j \in OfCodeAndPatient(c, pid) : i <= j

\* C11: in every row of the code ranking PacienteTop is a patient with the
\* greatest number of active records of the row's code and PacienteTop_Cant
\* is that number; of several patients with that number the one whose first
\* record of the code comes earliest is taken; PacienteTop_Fechas is the
\* distinct dates of the records of the code and that patient, ascending
\* and joined with ", ".
C11_TopPatientOfCode ==
  LET a == agg
  IN  \A k \in 1..Len(a.rankingCUPS) :
        LET row == a.rankingCUPS[k]
            code == row.CUPS
            pids == {ActiveRecords[i].paciente : i \in WithCups(code)}
            n(pid) == Cardinality(OfCodeAndPatient(code, pid))
            dates == {ActiveRecords[i].fecha : i \in OfCodeAndPatient(code, row.PacienteTop)}
        IN  /\ row.PacienteTop \in pids
            /\ row.PacienteTop_Cant = n(row.PacienteTop)
            /\ \A pid \in pids :
                  /\ n(pid) <= row.PacienteTop_Cant
                  /\ n(pid) = row.PacienteTop_Cant =>
                        FirstOfPatient(code, row.PacienteTop) <= FirstOfPatient(code, pid)
            /\ \E q \in [1..Cardinality(dates) -> dates] :
                  /\ \A i, j \in 1..Cardinality(dates) : i < j => StrLess(q[i], q[j])
                  /\ row.PacienteTop_Fechas = join(q, ", ")

\* the index of the first active record of patient pid
FirstSeenPatient(pid) ==
  CHOOSE i \in WithPaciente(pid) : \A j \in WithPaciente(pid) : i <= j

\* C12: the patient ranking has one row per distinct paciente of the active
\* records; ListaCUPS and ListaFechas are the codes and the dates of the
\* patient's active records in the order of the record list, both of length
\* TotalAtenciones; the rows are ordered by TotalAtenciones descending and
\* two patients with the same total are in the order in which they were
\* first seen in the record list.
C12_PatientRankingOrder ==
  LET a == agg
      rk == a.rankingPacientes
  IN  /\ Len(rk) = Cardinality({ActiveRecords[i].paciente : i \in 1..Len(ActiveRecords)})
      /\ \A k \in 1..Len(rk) :
            LET own == Sub(ActiveRecords, WithPaciente(rk[k].PacienteId))
            IN  /\ own # <<>>
                /\ rk[k].TotalAtenciones = Len(own)
                /\ rk[k].ListaCUPS = [i \in 1..Len(own) |-> own[i].cups]
                /\ rk[k].ListaFechas = [i \in 1..Len(own) |-> own[i].fecha]
      /\ \A k, l \in 1..Len(rk) :
            k < l =>
              /\ rk[k].PacienteId # rk[l].PacienteId
              /\ rk[k].TotalAtenciones >= rk[l].TotalAtenciones
              /\ rk[k].TotalAtenciones = rk[l].TotalAtenciones =>
                    FirstSeenPatient(rk[k].PacienteId) < FirstSeenPatient(rk[l].PacienteId)

\* the indices of the active goals, in the order of the goal list
ActiveGoals == SelectSeq([i \in 1..Len(metas) |-> i], LAMBDA i : metas[i].active)

\* C13: the chart has one point per active goal, in the order of the goal
\* list, with meta = monthlyGoal * scale and ejecutado = the number of
\* active records of the goal's type; cumplimiento is 0 when meta <= 0 and
\* otherwise ejecutado / meta * 100 rounded to the nearest integer (a half
\* upwards) and capped at 100; it is within 0..100; the colour is red below
\* 80, yellow from 80 to 99 and green at 100.
C13_ChartPoints ==
  LET a == agg
  IN  /\ Len(a.chartData) = Len(ActiveGoals)
      /\ \A k \in 1..Len(ActiveGoals) :
            LET goal == metas[ActiveGoals[k]]
                p == a.chartData[k]
            IN  /\ p.name = goal.type
                /\ p.meta = goal.monthlyGoal * scale
                /\ p.ejecutado = Cardinality(WithTipo(goal.type))
                /\ p.cumplimiento \in 0..100
                /\ p.meta <= 0 => p.cumplimiento = 0
                /\ p.meta > 0 =>
                      \E r \in 0..(100 * p.ejecutado + 1) :
                        /\ 2 * r * p.meta <= 200 * p.ejecutado + p.meta
                        /\ 200 * p.ejecutado + p.meta < 2 * (r + 1) * p.meta
                        /\ p.cumplimiento = IF r > 100 THEN 100 ELSE r
                /\ p.color = IF p.cumplimiento < 80 THEN "#ef4444"
                             ELSE IF p.cumplimiento < 100 THEN "#eab308" ELSE "#10b981"

\* one goal exceeded (6 records for a goal of 4, capped at 100, green), one
\* at 2 of 7, which is 28.6 and red
C13_Witness ==
  LET a == agg
  IN  /\ \E k \in 1..Len(a.chartData) :
            LET p == a.chartData[k]
            IN  p.meta = 4 /\ p.ejecutado = 6 /\ p.cumplimiento = 100 /\ p.color = "#10b981"
      /\ \E k \in 1..Len(a.chartData) :
            LET p == a.chartData[k]
            IN  p.meta = 7 /\ p.ejecutado = 2 /\ p.cumplimiento = 29 /\ p.color = "#ef4444"

\* the ids of the roster and the patients of the active records
RosterIds == {usuariosMap[i].key : i \in 1..Len(usuariosMap)}

ActivePatients == {ActiveRecords[i].paciente : i \in 1..Len(ActiveRecords)}

SameInputs ==
  /\ registros' = registros
  /\ usuariosMap' = usuariosMap
  /\ metas' = metas
  /\ scale' = scale

\* an aggregation result without its age fields
WithoutAges(a) ==
  LET rc == a.rankingCUPS
      rp == a.rankingPacientes
  IN  [stats |-> a.stats, chartData |-> a.chartData, duplicatesList |-> a.duplicatesList,
       rankingCUPS |-> [k \in 1..Len(rc) |->
                          [rc[k] EXCEPT !.PacienteTop_Edad = "", !.PacienteTop_GrupoEtario = ""]],
       rankingPacientes |-> [k \in 1..Len(rp) |->
                               [rp[k] EXCEPT !.Edad = "", !.GrupoEtario = ""]]]

C16_NormalizeIdIdempotent ==
  lastCall.fn = "normalizeId" => normalizeId(lastCall.ret) = lastCall.ret

\* the trimmed text of the lines of every file of the pool
FileTexts ==
  [file \in RipsFiles |->
     [k \in 1..Len(SplitLines(file.text)) |-> trim(SplitLines(file.text)[k])]]

RECURSIVE TextsOf(_)
TextsOf(files) ==
  IF files = <<>> THEN <<>> ELSE FileTexts[Head(files)] \o TextsOf(Tail(files))

\* the texts of the lines of the last committed batch that produced a
\* record, in file order then line order
AcceptedTexts ==
  LET es == LinesOf(hist.ripsFiles)
  IN  Sub(TextsOf(hist.ripsFiles),
          {k \in 1..Len(es) : es[k].kind = "servicio" /\ CatalogRows(es[k].servicio.cups) # {}})

\* the positions of l at which a run of six or more digits starts
LongDigitRuns(l) ==
  {i \in 1..Len(l) : (i = 1 \/ ~IsDigit(Ch(l, i - 1))) /\ DigitRun(l, i) >= 6}

\* l has no patient identifier of its own: no document prefix followed by
\* digits, and no run of six or more digits besides the service code
NoPatientToken(l) ==
  /\ \A i \in 1..Len(l) : PrefixedIdLenAt(l, i) = 0
  /\ Cardinality(LongDigitRuns(l)) = 1
  /\ \A i \in LongDigitRuns(l) : SubSeq(l, i, i + 5) = MatchCups(l)

\* C17: every record has a patientId that is not empty, and a record that
\* comes from a line without a patient identifier of its own (the only run
\* of six or more digits is the service code and there is no prefixed
\* token) has the patientId "SIN_ID".
C17_PlaceholderPatientId ==
  /\ \A i \in 1..Len(registros) : registros[i].paciente # ""
  /\ hist.op = "batch" =>
        /\ Len(AcceptedTexts) = Len(registros)
        /\ \A i \in 1..Len(registros) :
              NoPatientToken(AcceptedTexts[i]) => registros[i].paciente = "SIN_ID"

\* C18: a call of processFiles either has a RIPS file and a catalog and
\* starts reading, or it sets the validation error and changes nothing
\* else: registros, usuariosMap, maestro and isProcessing stay as they are
\* and no call is left running that would read a file.
C18_ValidationRejects ==
  [][batches' # batches =>
       IF pc' = "catalog"
       THEN Len(call'.ripsFiles) > 0 /\ call'.cupsFile # NoFile
       ELSE /\ message' = [type |-> "error", text |-> MsgSeleccione, n |-> 0]
            /\ registros' = registros
            /\ usuariosMap' = usuariosMap
            /\ maestro' = maestro
            /\ isProcessing' = isProcessing
            /\ pc' = "idle"
            /\ call' = NoCall
            /\ metas' = metas /\ scale' = scale]_vars

\* a call without files after a committed batch: the error is shown and
\* the records, the roster and the catalog of the batch are still there
C18_Witness ==
  /\ batches = 2
  /\ message = [type |-> "error", text |-> MsgSeleccione, n |-> 0]
  /\ hist.op = "batch"
  /\ registros # <<>>
  /\ usuariosMap # <<>>
  /\ maestro # <<>>
  /\ ~isProcessing
  /\ pc = "idle"

StorageCalls == {"saveConfig", "getConfig", "saveSessionData", "loadSessionData"}

\* the server did not accept or answer the request, or setItem threw
StoreFailed(c) == c.net # "ok" \/ c.disk = "full"

\* the call as a whole failed: it threw, a save lost one of its two copies,
\* or a load found nothing
CallFailed(c) ==
  \/ c.threw
  \/ c.fn \in {"saveConfig", "saveSessionData"} /\ StoreFailed(c)
  \/ c.ret \in {"false", "null"}

\* a failure never leaves a StorageService function as an exception, and a
\* save that failed returns true or false
C19_ReportedAsResult ==
  lastCall.fn \in StorageCalls /\ StoreFailed(lastCall) =>
    /\ ~lastCall.threw
    /\ lastCall.fn \in {"saveConfig", "saveSessionData"} => lastCall.ret \in {"true", "false"}

\* saveSessionData returns false exactly when neither the server nor
\* localStorage took the data
C19_FalseIffNeither ==
  lastCall.fn = "saveSessionData" =>
    (lastCall.ret = "false" <=> lastCall.net # "ok" /\ lastCall.disk = "full")

\* a call that failed leaves registros, usuariosMap, metas and scale
C19_MemoryKept ==
  [][lastCall' # lastCall /\ lastCall'.fn \in StorageCalls /\ CallFailed(lastCall') =>
       UNCHANGED <<registros, usuariosMap, metas, scale>>]_vars

\* C19: every failure of a save or a load of the configuration or of the
\* session (server unreachable, error answer, setItem throwing) comes back
\* to the caller as a success/failure result and never as an exception;
\* saveSessionData returns false exactly when neither store took the
\* data; no failure changes registros, usuariosMap, metas or scale.
C19_FailuresReported ==
  /\ []C19_ReportedAsResult
  /\ []C19_FalseIffNeither
  /\ C19_MemoryKept

\* the bracket that the years select
BracketOfYears(y) ==
  IF y <= 11 THEN "INFANCIA (6-11)"
  ELSE IF y <= 17 THEN "ADOLESCENCIA (12-17)"
  ELSE IF y <= 28 THEN "JÓVENES (18-28)"
  ELSE IF y <= 59 THEN "ADULTEZ (29-59)"
  ELSE "VEJEZ (60+)"

\* C20: grupoEtarioDesdeFN(fn) is "PRIMERA INFANCIA (0m-5a)" exactly when
\* edadMeses(fn) is a number that is at most 60; with more than 60 months
\* it is the bracket that edadAnios(fn) selects (<= 11, <= 17, <= 28, <= 59,
\* else "VEJEZ (60+)"); an empty or unparsable fn gives "".
C20_AgeBracket ==
  lastCall.fn = "grupoEtarioDesdeFN" =>
    LET fn == lastCall.arg
        m == edadMeses(fn, lastCall.at)
        y == edadAnios(fn, lastCall.at)
    IN  /\ lastCall.ret = "PRIMERA INFANCIA (0m-5a)" <=> ~m.isNull /\ m.n <= 60
        /\ ~m.isNull /\ m.n > 60 => ~y.isNull /\ lastCall.ret = BracketOfYears(y.n)
        /\ fn = "" \/ ~NewDate(fn, lastCall.at.west).valid => lastCall.ret = ""

\* a birth date of 61 months and 5 years: the years alone would still be
\* in the first bracket
C20_Witness ==
  /\ lastCall.fn = "grupoEtarioDesdeFN"
  /\ edadMeses(lastCall.arg, lastCall.at) = [isNull |-> FALSE, n |-> 61]
  /\ edadAnios(lastCall.arg, lastCall.at) = [isNull |-> FALSE, n |-> 5]
  /\ lastCall.ret = "INFANCIA (6-11)"

\* the section that the file name and the headers so far declare before
\* each of the (trimmed) lines texts, section being the one before the first
RECURSIVE DeclaredFrom(_, _)
DeclaredFrom(section, texts) ==
  IF texts = <<>> THEN <<>>
  ELSE LET u == toUpperCase(Head(texts))
           next == IF Head(texts) = "" THEN section
                   ELSE IF IsUsuariosHeader(u) THEN "USUARIOS"
                   ELSE IF IsServiciosHeader(u) THEN "SERVICIOS"
                   ELSE section
       IN  <<section>> \o DeclaredFrom(next, Tail(texts))

DeclaredSections ==
  [file \in RipsFiles |-> DeclaredFrom(getSectionFromFilename(file.name), FileTexts[file])]

RECURSIVE DeclaredOf(_)
DeclaredOf(files) ==
  IF files = <<>> THEN <<>> ELSE DeclaredSections[Head(files)] \o DeclaredOf(Tail(files))

\* a line that is neither empty nor a header and has two fields or more
IsDataLine(t) ==
  /\ t # ""
  /\ ~IsUsuariosHeader(toUpperCase(t))
  /\ ~IsServiciosHeader(toUpperCase(t))
  /\ Len(SplitParts(t)) >= 2

\* a date pattern and a standalone M or F
RosterShape(t) == hasDate(t) /\ hasSex(t)

\* C21: in a section that is not the roster, a data line with a date
\* pattern and a standalone M/F is extracted by the roster branch, and only
\* that line: every other data line under a declared section that is not
\* the roster (file name default or last header) is handled by the service
\* branch and gives a record when its code is in the catalog.
C21_OverridePerLine ==
  hist.op = "batch" =>
    LET es == LinesOf(hist.ripsFiles)
        ts == TextsOf(hist.ripsFiles)
        ds == DeclaredOf(hist.ripsFiles)
        service == {k \in 1..Len(es) :
                      IsDataLine(ts[k]) /\ ds[k] # "USUARIOS" /\ ~RosterShape(ts[k])}
    IN  /\ \A k \in 1..Len(es) :
              IsDataLine(ts[k]) /\ ds[k] # "USUARIOS" =>
                es[k].kind = IF RosterShape(ts[k]) THEN "usuario" ELSE "servicio"
        /\ Len(registros) =
             Cardinality({k \in service : CatalogRows(ExtractServicio(ts[k]).cups) # {}})

\* the NAME of a line of the form °----ARCHIVO-<NAME>----°| , uppercased and
\* trimmed; "" for every other line
MarkerName(t) ==
  LET name == IF Len(t) > 19 THEN SubSeq(t, 14, Len(t) - 6) ELSE ""
  IN  IF /\ startsWith(t, "°----ARCHIVO-")
         /\ Len(t) > 19
         /\ SubSeq(t, Len(t) - 5, Len(t)) = "----°|"
         /\ \A i \in 1..Len(name) : includes(UpperAlphabet \o LowerAlphabet \o "_ ", Ch(name, i))
      THEN trim(toUpperCase(name))
      ELSE ""

\* the lines of texts after the j-th up to the next header or marker
AfterMarker(texts, j) ==
  {k \in (j + 1)..Len(texts) :
     \A i \in (j + 1)..k :
        /\ MarkerName(texts[i]) = ""
        /\ ~IsUsuariosHeader(toUpperCase(texts[i]))
        /\ ~IsServiciosHeader(toUpperCase(texts[i]))}

\* the line gave a roster entry or (with the batch's catalog) a record
Yields(e) ==
  \/ e.kind = "usuario" /\ Len(e.usuario.id) >= 3
  \/ e.kind = "servicio" /\ CatalogRows(e.servicio.cups) # {}

\* C22: a line °----ARCHIVO-<NAME>----°| gives neither a roster entry nor a
\* record and makes <NAME> the section of the following lines of the file,
\* whatever the section was: up to the next header or marker (and as long
\* as no line of roster shape has intervened) the data lines are handled by
\* the roster branch when NAME contains USUARIOS and by the service branch
\* when it does not.
C22_MarkerSetsSection ==
  hist.op = "batch" =>
    \A n \in 1..Len(hist.ripsFiles) :
      LET ts == FileTexts[hist.ripsFiles[n]]
          es == FileLines[hist.ripsFiles[n]]
      IN  \A j \in 1..Len(ts) :
            MarkerName(ts[j]) # "" =>
              /\ ~Yields(es[j])
              /\ \A k \in AfterMarker(ts, j) :
                    (IsDataLine(ts[k]) /\ \A i \in (j + 1)..k : ~RosterShape(ts[i])) =>
                      es[k].kind = IF includes(MarkerName(ts[j]), "USUARIOS")
                                   THEN "usuario" ELSE "servicio"

\* C23: every file starts in the section that its own name declares,
\* whatever the section at the end of the file before; a USUARIOS header
\* switches to the roster and a CONSULTAS / PROCEDIMIENTOS / MEDICAMENTOS /
\* OTROS SERVICIOS header to the services; a header line gives neither a
\* roster entry nor a record; and the section so declared is the one in
\* effect until the next header: a data line that has not the roster shape
\* is handled by the roster branch when the declared section is the roster
\* and by the service branch when it is not.
C23_HeadersDriveSection ==
  hist.op = "batch" =>
    \A n \in 1..Len(hist.ripsFiles) :
      LET ts == FileTexts[hist.ripsFiles[n]]
          es == FileLines[hist.ripsFiles[n]]
          ds == DeclaredSections[hist.ripsFiles[n]]
      IN  \A k \in 1..Len(ts) :
            /\ (ts[k] # "" /\ \/ IsUsuariosHeader(toUpperCase(ts[k]))
                              \/ IsServiciosHeader(toUpperCase(ts[k]))) => ~Yields(es[k])
            /\ (IsDataLine(ts[k]) /\ ~RosterShape(ts[k])) =>
                 es[k].kind = IF ds[k] = "USUARIOS" THEN "usuario" ELSE "servicio"

\* the ids that the roster lines of the files give
RosterIdsOf(files) ==
  LET es == LinesOf(files)
  IN  {es[k].usuario.id : k \in {i \in 1..Len(es) : es[i].kind = "usuario"
                                                     /\ Len(es[i].usuario.id) >= 3}}

\* the commit of a batch during which handleClearData ran (the clear is the
\* last operation that ended before the commit)
CommitAfterClear ==
  /\ pc = "file"
  /\ pc' = "idle"
  /\ hist'.op = "batch"
  /\ call.touched
  /\ hist.op = "clear"

\* C24: when the data were cleared while a batch was waiting for the
\* content of a file, the roster that the batch commits has no patient
\* that was known only before the clear: every patient of it has a roster
\* line in the files of the batch.
C24_ClearNotUndoneByBatch ==
  [][CommitAfterClear => MapKeys(usuariosMap') \subseteq RosterIdsOf(call.ripsFiles)]_vars

\* handleClearData ends: StorageService.clearData() has completed
ClearCompleted ==
  /\ clearPending' = clearPending - 1
  /\ message' = [type |-> "success", text |-> MsgBaseLimpia, n |-> 0]

\* loadSessionData returns null whether the server answers or not
NothingToLoad(db, items) ==
  \A reply \in Replies : loadSessionData(db, items, reply).isNull

\* when clearData has completed, a loadSessionData returns null whatever
\* the server does
C25_NullAfterClear ==
  [][ClearCompleted => NothingToLoad(server', local')]_vars

\* and it returns null until saveSessionData has run again
C25_NullUntilSave ==
  [][NothingToLoad(server, local) /\ ~NothingToLoad(server', local') =>
       pc = "saveSessionData" /\ pc' = "idle"]_vars

\* C25: after clearData has completed every loadSessionData returns null
\* until a new saveSessionData, whether the server was reachable or not
\* during the clearData and during the load.
C25_ClearedNotRestored ==
  /\ C25_NullAfterClear
  /\ C25_NullUntilSave

\* what getConfig returns for the metas ms and the scale sc
ConfigOf(ms, sc) == [isNull |-> FALSE, metas |-> ms, scale |-> sc]

\* C26: when saveConfig(metas, scale) has completed, the next getConfig
\* (no saveConfig in between) returns those metas and that scale, whether
\* the server was reachable or not during the save and during the load,
\* and also when the server has started again with its initial db since.
C26_ConfigRoundTrip ==
  [][\A reply \in Replies :
       SaveConfigEffect(reply, "stored") =>
         \A db \in {server', NoDb}, r \in Replies, q \in Quotas :
           getConfig(db, local', r, q).ret = ConfigOf(metas, scale)]_vars

RECURSIVE SumOf(_)
SumOf(q) == IF q = <<>> THEN 0 ELSE Head(q) + SumOf(Tail(q))

\* C27: in every aggregation the Cantidad of the code rows, the
\* TotalAtenciones of the patient rows and the per-type counts each add up
\* to stats.totalActivities, which is the number of records of an active
\* type; and in every code row 1 <= PacienteTop_Cant <= Cantidad.
C27_CountConservation ==
  LET a == agg
      filtered == filteredRegistros(registros, metas)
      typeCount == CountRecords(NoCounts, filtered).typeCount
      total == a.stats.totalActivities
  IN  /\ total = Len(filtered)
      /\ total = Cardinality({i \in 1..Len(registros) : registros[i].tipo \in activeTypes(metas)})
      /\ SumOf([i \in 1..Len(a.rankingCUPS) |-> a.rankingCUPS[i].Cantidad]) = total
      /\ SumOf([i \in 1..Len(a.rankingPacientes) |-> a.rankingPacientes[i].TotalAtenciones]) = total
      /\ SumOf([i \in 1..Len(typeCount) |-> typeCount[i].val]) = total
      /\ SumOf([i \in 1..Len(a.chartData) |-> a.chartData[i].ejecutado]) = total
      /\ \A i \in 1..Len(a.rankingCUPS) :
            /\ 1 <= a.rankingCUPS[i].PacienteTop_Cant
            /\ a.rankingCUPS[i].PacienteTop_Cant <= a.rankingCUPS[i].Cantidad

\* records of two types and two patients, some of an inactive type, repeated
\* records, and a code whose top patient has fewer records than the code
C27_Witness ==
  LET a == agg
  IN  /\ a.stats.totalActivities >= 4
      /\ a.stats.totalActivities < Len(registros)
      /\ Len(a.rankingCUPS) >= 2
      /\ Len(a.rankingPacientes) >= 2
      /\ Len(a.duplicatesList) >= 1
      /\ \E i \in 1..Len(a.rankingCUPS) :
            a.rankingCUPS[i].PacienteTop_Cant < a.rankingCUPS[i].Cantidad

\* the settings of the goals that filter the records of the model in
\* different ways: each of the two goals whose type occurs in the catalogs
\* active or not
GoalSettings ==
  {[i \in 1..Len(metas) |-> [metas[i] EXCEPT !.active = (i \notin off)]] :
     off \in SUBSET EditedGoals}

\* the duplicate list of an aggregation of regs with the goals ms
DuplicatesOf(regs, ms) ==
  DuplicatesList(CountRecords(NoCounts, filteredRegistros(regs, ms)), usuariosMap)

\* the orders in which n groups can be taken
Orders(n) == {f \in [1..n -> 1..n] : \A i, j \in 1..n : f[i] = f[j] => i = j}

\* remove-one-group for the groups dups[order[k]], k = i, i + 1, ...
RECURSIVE RemoveEach(_, _, _, _)
RemoveEach(regs, dups, order, i) ==
  IF i > Len(dups) THEN regs
  ELSE RemoveEach(RemoveDuplicate(regs, dups[order[i]].id).newRegistros, dups, order, i + 1)

\* C28: after remove-all-duplicates the duplicate list is empty for every
\* setting of the goals; a second remove-all-duplicates removes 0 records
\* and leaves the list as it is; and remove-one-group applied once for
\* every group of the duplicate list of the records before, in any order,
\* gives the same filtered records, without duplicates.
C28_RemoveAllComplete ==
  hist.op = "removeAll" =>
    /\ \A ms \in GoalSettings : DuplicatesOf(registros, ms) = <<>>
    /\ RemoveAllDuplicates(registros) = [newRegistros |-> registros, removedCount |-> 0]
    /\ \A ms \in GoalSettings :
         LET dups == DuplicatesOf(hist.registros, ms)
         IN  \A order \in Orders(Len(dups)) :
               LET one == RemoveEach(hist.registros, dups, order, 1)
               IN  /\ filteredRegistros(one, ms) = filteredRegistros(registros, ms)
                   /\ DuplicatesOf(one, ms) = <<>>

\* remove-all-duplicates on a list with two groups, which can be taken in
\* two orders, and with a setting of the goals that lists only one of them
C28_Witness ==
  /\ hist.op = "removeAll"
  /\ Len(DuplicatesOf(hist.registros, metas)) = 2
  /\ Cardinality(Orders(2)) = 2
  /\ \E ms \in GoalSettings : Len(DuplicatesOf(hist.registros, ms)) = 1
  /\ message.text = MsgLimpiezaMasiva
  /\ message.n = 2
  /\ DuplicatesOf(registros, metas) = <<>>

\* the copies in excess that the duplicate list dl shows
ExcessShown(dl) == SumOf([k \in 1..Len(dl) |-> dl[k].repeticiones - 1])

\* remove-all-duplicates reports the excess of the list shown before it
C29_RemoveAllCount ==
  [][handleRemoveAllDuplicates => message'.n = ExcessShown(duplicatesList)]_vars

\* remove-one-group reports the repeticiones of its group less one
C29_RemoveOneCount ==
  [][LET dl == duplicatesList
     IN  \A k \in 1..Len(dl) :
           handleRemoveDuplicate(dl[k]) => message'.n = dl[k].repeticiones - 1]_vars

\* C29: the number that remove-all-duplicates reports is the sum of
\* repeticiones - 1 over the groups of the duplicate list shown just before
\* it, and the number that remove-one-group reports for a listed group is
\* the repeticiones of that group less one, whatever the records and the
\* active goals.
C29_CountsAgreeWithAudit ==
  /\ C29_RemoveAllCount
  /\ C29_RemoveOneCount

\* C30: full compliance is never shown for an unmet goal: a chart point of
\* an active goal with meta = monthlyGoal * scale > 0 has cumplimiento 100
\* and the green colour only if ejecutado >= meta
C30_FullOnlyIfMet ==
  lastCall.fn = "chartData" =>
    \A k \in 1..Len(lastCall.ret) :
      LET p == lastCall.ret[k]
      IN  p.meta > 0 /\ (p.cumplimiento = 100 \/ p.color = "#10b981")
            => p.ejecutado >= p.meta

====
